---- MODULE Spec2Model ----
(***************************************************************************)
(* Horametre: the rules engine FrenchRules (public/js/french-rules.js).    *)
(*                                                                         *)
(* Units.  JavaScript numbers are modelled by integers on fixed grids:     *)
(*   hours        hundredths of an hour (minutesToHours rounds every       *)
(*                daily value to 2 decimals, and all sums stay on it);     *)
(*   minutes      minutes;                                                 *)
(*   multipliers  quarters (1.25 = 5/4, 1.50 = 6/4, 0.50 = 2/4, 1.00 = 4/4)*)
(*   hourly rate  thousandths of a euro;                                   *)
(*   raw money    hours x rate x multiplier = 1/400000 euro;               *)
(*   rounded money  cents.                                                 *)
(* Math.round(x * 100) / 100 is round-half-up to the hundredth; binary     *)
(* floating-point noise is outside the model.                              *)
(* Dates are day numbers (days since 1970-01-01); the local calendar day   *)
(* of new Date("YYYY-MM-DD") is taken to be the day written in the string  *)
(* (a time zone at or east of UTC, as in France).  Instants, where the     *)
(* source adds milliseconds to getTime(), are counted in hours under the   *)
(* Europe/Paris summer-time rule.                                          *)
(* NaN is a distinguished value; arithmetic and comparisons that it can    *)
(* reach go through Plus, Minus, Times, LessEq, Greater, GreaterEq, Min    *)
(* and Max, which treat it as JavaScript does.                             *)
(***************************************************************************)
EXTENDS Integers, Sequences, FiniteSets, TLC

VARIABLES
    call,                \* a call of a pure engine function: arguments and, once done, result
    pc,                  \* processEntries: "start", "days", "weeks", "totals", "done"
    entries,             \* processEntries argument: the entry list
    hourlyRate,          \* processEntries argument
    contractBase,        \* processEntries argument
    dailyResults,        \* processEntries locals, as named in the source
    totalHours,
    totalNightHours,
    totalSundayHours,
    totalHolidayHours,
    weeklyHoursMap,
    weeklySundayMap,
    weeklyHolidayMap,
    weeklyResults,
    cumulativeOvertime,
    totalPay,
    result,              \* the value processEntries returns
    heap,                \* the objects of the module and of the results: heap[r] is object r
    history,             \* the invocations of processEntries that returned before the current one
    authPassword,        \* server.js: AUTH_PASSWORD ("" when the variable is empty or absent)
    sessions,            \* server.js: the sessions of the store whose authenticated flag is set
    employees,           \* server.js: the rows of table employees
    lastEmployeeId,      \* server.js: the AUTOINCREMENT sequence of table employees
    dbEntries,           \* server.js: the rows of table entries
    settings,            \* server.js: the rows of table settings
    exchange,            \* server.js: the request handled last and its response
    state,               \* app.js: the fields of state that the entry handlers use
    autoSaveTimer,       \* app.js: whether the timeout of scheduleAutoSave is pending
    fetches,             \* app.js: the fetch calls that have not resolved yet
    entriesOwner         \* history variable: the employee state.entries was initialised or loaded for

vars == <<call, pc, entries, hourlyRate, contractBase, dailyResults, totalHours,
          totalNightHours, totalSundayHours, totalHolidayHours, weeklyHoursMap,
          weeklySundayMap, weeklyHolidayMap, weeklyResults, cumulativeOvertime,
          totalPay, result, heap, history, authPassword, sessions, employees,
          lastEmployeeId, dbEntries, settings, exchange, state, autoSaveTimer, fetches,
          entriesOwner>>

procVars == <<pc, entries, hourlyRate, contractBase, dailyResults, totalHours,
              totalNightHours, totalSundayHours, totalHolidayHours, weeklyHoursMap,
              weeklySundayMap, weeklyHolidayMap, weeklyResults, cumulativeOvertime,
              totalPay, result>>

\* the state of the server
serverVars == <<authPassword, sessions, employees, lastEmployeeId, dbEntries, settings,
                exchange>>

\* the state of the page
clientVars == <<state, autoSaveTimer, fetches, entriesOwner>>

\* what no engine function reads or writes
restVars == <<history, serverVars, clientVars>>

(***************************************************************************)
(* Bounds of the model                                                     *)
(***************************************************************************)
MaxEntries == 2
MaxWeeklyQuarterHours == 208
MaxPayHalfHours == 100

(***************************************************************************)
(* Arithmetic helpers                                                      *)
(***************************************************************************)
\* NaN, the result of Number("abc") and of any arithmetic on it: a value below
\* every number of the model
NaN == -99999999

\* a + b, a - b, a * b
Plus(a, b) == IF a = NaN \/ b = NaN THEN NaN ELSE a + b

Minus(a, b) == IF a = NaN \/ b = NaN THEN NaN ELSE a - b

Times(a, b) == IF a = NaN \/ b = NaN THEN NaN ELSE a * b

\* a <= b, a > b, a >= b: false when an operand is NaN
LessEq(a, b) == a # NaN /\ b # NaN /\ a <= b

Greater(a, b) == a # NaN /\ b # NaN /\ a > b

GreaterEq(a, b) == a # NaN /\ b # NaN /\ a >= b

\* Math.min, Math.max
Min(a, b) == IF a = NaN \/ b = NaN THEN NaN ELSE IF a <= b THEN a ELSE b

Max(a, b) == IF a = NaN \/ b = NaN THEN NaN ELSE IF a >= b THEN a ELSE b

\* hours -> hundredths of an hour
H(n) == n * 100

\* Math.round(x / d): round half up (towards +infinity); d > 0 and even
RoundDiv(x, d) == (x + (d \div 2)) \div d

\* JavaScript null / undefined
Null == [null |-> TRUE]

\* a JavaScript number n
Num(n) == [num |-> n]

RECURSIVE SeqSum(_)
SeqSum(s) == IF s = <<>> THEN 0 ELSE Head(s) + SeqSum(Tail(s))

(***************************************************************************)
(* Configuration                                                           *)
(***************************************************************************)
Infinity == 100000000

\* the objects the module creates when it is loaded: the bracket table, then the
\* CONFIG object that refers to it
ConfigBracketsRef == 1

ConfigRef == 2

\* an array and an object of the heap
ArrayOf(items) == [kind |-> "array", items |-> items]

ObjectOf(kind, fields) == [kind |-> kind, fields |-> fields]

ModuleHeap ==
    << ArrayOf(
        << [from |-> H(35), to |-> H(43), rate |-> 5, label |-> "Heures sup. 25%"],
           [from |-> H(43), to |-> Infinity, rate |-> 6, label |-> "Heures sup. 50%"] >>),
       ObjectOf("CONFIG",
       [ weeklyLegalHours |-> H(35),
         dailyMaxHours |-> H(10),
         weeklyMaxHours |-> H(48),
         weeklyAvgMaxHours |-> H(44),
         mandatoryBreakAfterMinutes |-> 360,
         mandatoryBreakMinutes |-> 20,
         nightStart |-> 21,
         nightEnd |-> 6,
         overtimeBrackets |-> ConfigBracketsRef,
         sundayPremiumRate |-> 2,
         holidayPremiumRate |-> 4,
         structuralOvertimeHours39 |-> H(4) ]) >>

\* CONFIG as the functions read it: the object of the module, its bracket table
\* followed through the reference
CONFIG ==
    [heap[ConfigRef].fields EXCEPT !.overtimeBrackets = heap[@].items]

(***************************************************************************)
(* Time strings: "HH:MM" is a sequence of one-character strings, "" is <<>>*)
(***************************************************************************)
Digits == <<"0", "1", "2", "3", "4", "5", "6", "7", "8", "9">>

DigitValue(c) == CHOOSE d \in 0..9 : Digits[d + 1] = c

\* the value of a run of decimal digits
RECURSIVE NumberOf(_)
NumberOf(s) ==
    IF s = <<>> THEN 0
    ELSE 10 * NumberOf(SubSeq(s, 1, Len(s) - 1)) + DigitValue(s[Len(s)])

\* Number(s): 0 for "", the value of a run of digits, NaN for anything else
Number(s) ==
    IF \A i \in 1..Len(s) : \E d \in 1..10 : Digits[d] = s[i] THEN NumberOf(s) ELSE NaN

\* timeStr.split(':')
RECURSIVE SplitColon(_)
SplitColon(s) ==
    IF \A i \in 1..Len(s) : s[i] # ":" THEN <<s>>
    ELSE LET p == CHOOSE i \in 1..Len(s) : s[i] = ":" /\ \A j \in 1..(i - 1) : s[j] # ":"
         IN  <<SubSeq(s, 1, p - 1)>> \o SplitColon(SubSeq(s, p + 1, Len(s)))

\* const [h, m] = timeStr.split(':').map(Number): m is undefined, and h * 60 + m
\* is NaN, when there is no colon
timeToMinutes(timeStr) ==
    IF timeStr = <<>> THEN 0
    ELSE LET parts == SplitColon(timeStr)
             h == Number(parts[1])
             m == IF Len(parts) >= 2 THEN Number(parts[2]) ELSE NaN
         IN  Plus(Times(h, 60), m)

\* Math.round((minutes / 60) * 100) / 100
minutesToHours(minutes) == IF minutes = NaN THEN NaN ELSE RoundDiv(minutes * 100, 60)

\* what an <input type="time"> holds for hour h, minute m
TimeString(h, m) ==
    <<Digits[(h \div 10) + 1], Digits[(h % 10) + 1], ":",
      Digits[(m \div 10) + 1], Digits[(m % 10) + 1]>>

\* parseInt(entry.breakDuration) || 0: the break is a number of minutes, or a value
\* parseInt reads as NaN
parseIntOrZero(breakDuration) == IF breakDuration = NaN THEN 0 ELSE breakDuration

(***************************************************************************)
(* calculateDailyHours                                                     *)
(***************************************************************************)
calculateDailyHours_NoWrapOnEqual(entry) ==
    IF entry.start = <<>> \/ entry.end = <<>> THEN 0
    ELSE LET startMin == timeToMinutes(entry.start)
             endMin0 == timeToMinutes(entry.end)
             endMin == IF endMin0 < startMin THEN endMin0 + 1440 ELSE endMin0
             workedMinutes == (endMin - startMin) - entry.breakDuration
         IN  Max(0, minutesToHours(workedMinutes))

calculateDailyHours_NoClamp(entry) ==
    IF entry.start = <<>> \/ entry.end = <<>> THEN 0
    ELSE LET startMin == timeToMinutes(entry.start)
             endMin0 == timeToMinutes(entry.end)
             endMin == IF endMin0 <= startMin THEN endMin0 + 1440 ELSE endMin0
             workedMinutes == (endMin - startMin) - entry.breakDuration
         IN  minutesToHours(workedMinutes)

calculateDailyHours(entry) ==
    IF entry.start = <<>> \/ entry.end = <<>> THEN 0
    ELSE LET startMin == timeToMinutes(entry.start)
             endMin0 == timeToMinutes(entry.end)
             \* Handle overnight shifts
             endMin == IF LessEq(endMin0, startMin) THEN endMin0 + 1440 ELSE endMin0
             \* Subtract break
             breakMin == parseIntOrZero(entry.breakDuration)
             workedMinutes == Minus(Minus(endMin, startMin), breakMin)
         IN  Max(0, minutesToHours(workedMinutes))

(***************************************************************************)
(* calculateNightHours                                                     *)
(***************************************************************************)
calculateNightHours(entry) ==
    IF entry.start = <<>> \/ entry.end = <<>> THEN 0
    ELSE LET startMin == timeToMinutes(entry.start)
             endMin0 == timeToMinutes(entry.end)
             endMin == IF LessEq(endMin0, startMin) THEN endMin0 + 1440 ELSE endMin0
             nightStartMin == CONFIG.nightStart * 60
             nightEndMin == CONFIG.nightEnd * 60
             nightP1Start == nightStartMin
             nightP1End == 1440
             nightP2Start == 0
             nightP2End == nightEndMin
             overlap1Start == Max(startMin, nightP1Start)
             overlap1End == Min(endMin, nightP1End)
             n1 == IF Greater(overlap1End, overlap1Start)
                   THEN overlap1End - overlap1Start ELSE 0
             overlap2Start == Max(startMin, nightP2Start)
             overlap2End == Min(endMin, nightP2End)
             n2 == IF Greater(overlap2End, overlap2Start)
                   THEN overlap2End - overlap2Start ELSE 0
             \* the source bounds the next day's morning by nightEndMin * 60
             nextDayEnd == Min(Minus(endMin, 1440), nightEndMin * 60)
             n3 == IF Greater(endMin, 1440) THEN Max(0, nextDayEnd) ELSE 0
         IN  minutesToHours(n1 + n2 + n3)

(***************************************************************************)
(* calculateOvertime                                                       *)
(***************************************************************************)
\* a bracket loop that records every bracket, also the ones left with no hours
FillBrackets_KeepEmpty(brackets, remainingOvertime, acc) ==
    acc \o [i \in 1..Len(brackets) |->
              LET before == SeqSum([j \in 1..(i - 1) |-> brackets[j].to - brackets[j].from])
                  hoursInBracket == Max(0, Min(remainingOvertime - before,
                                               brackets[i].to - brackets[i].from))
              IN  [label |-> brackets[i].label,
                   hours |-> hoursInBracket,
                   rate |-> brackets[i].rate,
                   multipliedHours |-> RoundDiv(hoursInBracket * brackets[i].rate, 4)]]

\* the bracket loop: for (const bracket of brackets) { ... }
RECURSIVE FillBrackets(_, _, _)
FillBrackets(brackets, remainingOvertime, acc) ==
    IF brackets = <<>> THEN acc
    ELSE LET bracket == Head(brackets)
             bracketWidth == bracket.to - bracket.from
             hoursInBracket == Min(remainingOvertime, bracketWidth)
             pushed == IF Greater(hoursInBracket, 0)
                       THEN Append(acc, [label |-> bracket.label,
                                         hours |-> hoursInBracket,
                                         rate |-> bracket.rate,
                                         multipliedHours |-> RoundDiv(hoursInBracket * bracket.rate, 4)])
                       ELSE acc
             remaining == IF Greater(hoursInBracket, 0)
                          THEN remainingOvertime - hoursInBracket
                          ELSE remainingOvertime
         IN  IF LessEq(remaining, 0) THEN pushed
             ELSE FillBrackets(Tail(brackets), remaining, pushed)

overtimeBrackets39_From35 ==
    << [from |-> H(35), to |-> H(43), rate |-> 5, label |-> "Heures sup. 25% (>39h)"],
       [from |-> H(43), to |-> Infinity, rate |-> 6, label |-> "Heures sup. 50% (>43h)"] >>

overtimeBrackets39 ==
    << [from |-> H(39), to |-> H(43), rate |-> 5, label |-> "Heures sup. 25% (>39h)"],
       [from |-> H(43), to |-> Infinity, rate |-> 6, label |-> "Heures sup. 50% (>43h)"] >>

calculateOvertime_StructuralNoFloor(weeklyHours, base) ==
    LET threshold == IF base = 39 THEN H(39) ELSE CONFIG.weeklyLegalHours
        empty == [regularHours |-> 0, structuralHours |-> 0, brackets |-> <<>>,
                  totalOvertime |-> 0, contractBase |-> base]
    IN  IF base = 39
        THEN \* Base 39h: hours 35 -> 39 are structural
             LET hoursUpTo35 == Min(weeklyHours, H(35))
                 structuralHours == Min(weeklyHours - H(35), H(4))
                 r == [empty EXCEPT !.regularHours = hoursUpTo35,
                                    !.structuralHours = structuralHours]
             IN  IF weeklyHours <= threshold THEN r
                 ELSE [r EXCEPT !.totalOvertime = weeklyHours - threshold,
                                !.brackets = FillBrackets(overtimeBrackets39,
                                                          weeklyHours - threshold, <<>>)]
        ELSE \* Base 35h: standard behaviour
             IF weeklyHours <= CONFIG.weeklyLegalHours
             THEN [empty EXCEPT !.regularHours = weeklyHours]
             ELSE [empty EXCEPT !.regularHours = CONFIG.weeklyLegalHours,
                                !.totalOvertime = weeklyHours - CONFIG.weeklyLegalHours,
                                !.brackets = FillBrackets(CONFIG.overtimeBrackets,
                                                          weeklyHours - CONFIG.weeklyLegalHours,
                                                          <<>>)]

calculateOvertime(weeklyHours, base) ==
    LET threshold == IF base = 39 THEN H(39) ELSE CONFIG.weeklyLegalHours
        empty == [regularHours |-> 0, structuralHours |-> 0, brackets |-> <<>>,
                  totalOvertime |-> 0, contractBase |-> base]
    IN  IF base = 39
        THEN \* Base 39h: hours 35 -> 39 are structural
             LET hoursUpTo35 == Min(weeklyHours, H(35))
                 structuralHours == Min(Max(Minus(weeklyHours, H(35)), 0), H(4))
                 r == [empty EXCEPT !.regularHours = hoursUpTo35,
                                    !.structuralHours = structuralHours]
             IN  IF LessEq(weeklyHours, threshold) THEN r
                 ELSE [r EXCEPT !.totalOvertime = Minus(weeklyHours, threshold),
                                !.brackets = FillBrackets(overtimeBrackets39,
                                                          Minus(weeklyHours, threshold), <<>>)]
        ELSE \* Base 35h: standard behaviour
             IF LessEq(weeklyHours, CONFIG.weeklyLegalHours)
             THEN [empty EXCEPT !.regularHours = weeklyHours]
             ELSE [empty EXCEPT !.regularHours = CONFIG.weeklyLegalHours,
                                !.totalOvertime = Minus(weeklyHours, CONFIG.weeklyLegalHours),
                                !.brackets = FillBrackets(CONFIG.overtimeBrackets,
                                                          Minus(weeklyHours, CONFIG.weeklyLegalHours),
                                                          <<>>)]

(***************************************************************************)
(* calculatePay                                                            *)
(***************************************************************************)
\* Math.round(x * 100) / 100 of a raw amount: raw money -> cents
RoundMoney(x) == IF x = NaN THEN NaN ELSE RoundDiv(x, 4000)

\* Math.round(x * 100) / 100 of a value already on the hundredth grid
Round2(x) == IF x = NaN THEN NaN ELSE RoundDiv(x * 100, 100)

RECURSIVE BracketPay(_, _)
BracketPay(brackets, rate) ==
    IF brackets = <<>> THEN 0
    ELSE Head(brackets).hours * rate * Head(brackets).rate + BracketPay(Tail(brackets), rate)

calculatePay_SumOfRounded(weeklyHours, rate, base, sundayHours, holidayHours) ==
    IF rate = Null \/ rate.num <= 0 THEN Null
    ELSE LET overtime == calculateOvertime(weeklyHours, base)
             \* Structural hours pay (39h base)
             structuralPay == IF base = 39 /\ overtime.structuralHours > 0
                              THEN overtime.structuralHours * rate.num * 5
                              ELSE 0
             \* Base pay
             basePay == overtime.regularHours * rate.num * 4 + structuralPay
             \* Overtime pay
             overtimePay == BracketPay(overtime.brackets, rate.num)
             sundayPremium == sundayHours * rate.num * CONFIG.sundayPremiumRate
             holidayPremium == holidayHours * rate.num * CONFIG.holidayPremiumRate
             total == basePay + overtimePay + sundayPremium + holidayPremium
         IN  [ regularPay |-> RoundMoney(basePay),
               structuralPay |-> RoundMoney(structuralPay),
               overtimePay |-> RoundMoney(overtimePay),
               sundayHours |-> Round2(sundayHours),
               sundayPremium |-> RoundMoney(sundayPremium),
               holidayHours |-> Round2(holidayHours),
               holidayPremium |-> RoundMoney(holidayPremium),
               totalPay |-> RoundMoney(basePay) + RoundMoney(overtimePay)
                             + RoundMoney(sundayPremium) + RoundMoney(holidayPremium),
               breakdown |-> overtime ]

calculatePay_StructuralTwice(weeklyHours, rate, base, sundayHours, holidayHours) ==
    IF rate = Null \/ rate.num <= 0 THEN Null
    ELSE LET overtime == calculateOvertime(weeklyHours, base)
             \* Structural hours pay (39h base)
             structuralPay == IF base = 39 /\ overtime.structuralHours > 0
                              THEN overtime.structuralHours * rate.num * 5
                              ELSE 0
             \* Base pay
             basePay == overtime.regularHours * rate.num * 4 + structuralPay
             \* Overtime pay
             overtimePay == BracketPay(overtime.brackets, rate.num)
             sundayPremium == sundayHours * rate.num * CONFIG.sundayPremiumRate
             holidayPremium == holidayHours * rate.num * CONFIG.holidayPremiumRate
             total == basePay + structuralPay + overtimePay + sundayPremium + holidayPremium
         IN  [ regularPay |-> RoundMoney(basePay),
               structuralPay |-> RoundMoney(structuralPay),
               overtimePay |-> RoundMoney(overtimePay),
               sundayHours |-> Round2(sundayHours),
               sundayPremium |-> RoundMoney(sundayPremium),
               holidayHours |-> Round2(holidayHours),
               holidayPremium |-> RoundMoney(holidayPremium),
               totalPay |-> RoundMoney(total),
               breakdown |-> overtime ]

calculatePay(weeklyHours, rate, base, sundayHours, holidayHours) ==
    IF rate = Null \/ rate.num <= 0 THEN Null
    ELSE LET overtime == calculateOvertime(weeklyHours, base)
             \* Structural hours pay (39h base)
             structuralPay == IF base = 39 /\ Greater(overtime.structuralHours, 0)
                              THEN overtime.structuralHours * rate.num * 5
                              ELSE 0
             \* Base pay
             basePay == Plus(Times(overtime.regularHours, rate.num * 4), structuralPay)
             \* Overtime pay
             overtimePay == BracketPay(overtime.brackets, rate.num)
             sundayPremium == sundayHours * rate.num * CONFIG.sundayPremiumRate
             holidayPremium == holidayHours * rate.num * CONFIG.holidayPremiumRate
             total == Plus(basePay, overtimePay + sundayPremium + holidayPremium)
         IN  [ regularPay |-> RoundMoney(basePay),
               structuralPay |-> RoundMoney(structuralPay),
               overtimePay |-> RoundMoney(overtimePay),
               sundayHours |-> Round2(sundayHours),
               sundayPremium |-> RoundMoney(sundayPremium),
               holidayHours |-> Round2(holidayHours),
               holidayPremium |-> RoundMoney(holidayPremium),
               totalPay |-> RoundMoney(total),
               breakdown |-> overtime ]

(***************************************************************************)
(* Dates: JavaScript Date values at day granularity                        *)
(***************************************************************************)
\* new Date(year, month - 1, day) / Date.UTC(...): the day number of a civil date
DaysFromCivil(year, month, day) ==
    LET y == IF month <= 2 THEN year - 1 ELSE year
        era == y \div 400
        yoe == y - era * 400
        mp == IF month > 2 THEN month - 3 ELSE month + 9
        doy == (153 * mp + 2) \div 5 + day - 1
        doe == yoe * 365 + yoe \div 4 - yoe \div 100 + doy
    IN  era * 146097 + doe - 719468

\* getFullYear / getMonth (+1) / getDate of a day number
CivilFromDays(days) ==
    LET z == days + 719468
        era == z \div 146097
        doe == z - era * 146097
        yoe == (doe - doe \div 1460 + doe \div 36524 - doe \div 146096) \div 365
        doy == doe - (365 * yoe + yoe \div 4 - yoe \div 100)
        mp == (5 * doy + 2) \div 153
        d == doy - (153 * mp + 2) \div 5 + 1
        m == IF mp < 10 THEN mp + 3 ELSE mp - 9
        y == yoe + era * 400 + (IF m <= 2 THEN 1 ELSE 0)
    IN  [year |-> y, month |-> m, day |-> d]

\* getDay(): 0 = Sunday ... 6 = Saturday (1970-01-01 is a Thursday)
getDay(date) == (date + 4) % 7

\* new Date(entry.date) for entry.date = "YYYY-MM-DD"
NewDate(dateStr) == DaysFromCivil(dateStr.year, dateStr.month, dateStr.day)

\* date.toLocaleDateString('fr-FR', { weekday: 'long' })
WeekdayNames == <<"dimanche", "lundi", "mardi", "mercredi", "jeudi", "vendredi", "samedi">>

dayNameOf(date) == WeekdayNames[getDay(date) + 1]

(***************************************************************************)
(* Holiday calendar                                                        *)
(***************************************************************************)
\* the Julian-calendar Computus, read as a Gregorian date
getEasterDate_Julian(year) ==
    LET a == year % 4
        b == year % 7
        c == year % 19
        d == (19 * c + 15) % 30
        e == (2 * a + 4 * b - d + 34) % 7
        month == (d + e + 114) \div 31
        day == ((d + e + 114) % 31) + 1
    IN  DaysFromCivil(year, month, day)

\* the Computus without the correction m of the late full moons
getEasterDate_NoCorrection(year) ==
    LET a == year % 19
        b == year \div 100
        c == year % 100
        d == b \div 4
        e == b % 4
        f == (b + 8) \div 25
        g == (b - f + 1) \div 3
        h == (19 * a + b - d - g + 15) % 30
        i == c \div 4
        k == c % 4
        l == (32 + 2 * e + 2 * i - h - k) % 7
        month == (h + l + 114) \div 31
        day == ((h + l + 114) % 31) + 1
    IN  DaysFromCivil(year, month, day)

getEasterDate(year) ==
    LET a == year % 19
        b == year \div 100
        c == year % 100
        d == b \div 4
        e == b % 4
        f == (b + 8) \div 25
        g == (b - f + 1) \div 3
        h == (19 * a + b - d - g + 15) % 30
        i == c \div 4
        k == c % 4
        l == (32 + 2 * e + 2 * i - h - k) % 7
        m == (a + 11 * h + 22 * l) \div 451
        month == (h + l - 7 * m + 114) \div 31
        day == ((h + l - 7 * m + 114) % 31) + 1
    IN  DaysFromCivil(year, month, day)

\* The host clock is Europe/Paris under the European summer-time rule, applied to
\* every year: UTC+2 from 01:00 UTC on the last Sunday of March to 01:00 UTC on the
\* last Sunday of October, UTC+1 otherwise.  Instants are counted in hours.
LastSundayOf(year, month) ==
    LET last == DaysFromCivil(year, month, 31)
    IN  last - getDay(last)

\* const x = v; ... : v is evaluated once and the body reads its value
Const(v, Body(_)) == CHOOSE r \in {Body(x) : x \in {v}} : TRUE

\* the offset of local time at the instant t
TimezoneOffsetAt(t) ==
    Const(CivilFromDays(t \div 24).year, LAMBDA y :
        IF LastSundayOf(y, 3) * 24 + 1 <= t /\ t < LastSundayOf(y, 10) * 24 + 1
        THEN 2 ELSE 1)

\* date.getTime() of a date at local midnight
getTime(date) ==
    Const(CivilFromDays(date).year, LAMBDA y :
        date * 24 - (IF LastSundayOf(y, 3) < date /\ date <= LastSundayOf(y, 10)
                     THEN 2 ELSE 1))

\* a reading of the instant's UTC day instead of its local day
NewDateOfTime_UTC(t) == t \div 24

\* new Date(ms): the local calendar day of the instant t
NewDateOfTime(t) == (t + TimezoneOffsetAt(t)) \div 24

\* the list for Easter Sunday at the instant easterMs
HolidayList(year, easterMs) ==
    LET day == 24
    IN  << [date |-> DaysFromCivil(year, 1, 1), name |-> "Jour de l'An"],
           [date |-> NewDateOfTime(easterMs + 1 * day), name |-> "Lundi de Paques"],
           [date |-> DaysFromCivil(year, 5, 1), name |-> "Fete du Travail"],
           [date |-> DaysFromCivil(year, 5, 8), name |-> "Victoire 1945"],
           [date |-> NewDateOfTime(easterMs + 39 * day), name |-> "Ascension"],
           [date |-> NewDateOfTime(easterMs + 50 * day), name |-> "Lundi de Pentecote"],
           [date |-> DaysFromCivil(year, 7, 14), name |-> "Fete Nationale"],
           [date |-> DaysFromCivil(year, 8, 15), name |-> "Assomption"],
           [date |-> DaysFromCivil(year, 11, 1), name |-> "Toussaint"],
           [date |-> DaysFromCivil(year, 11, 11), name |-> "Armistice 1918"],
           [date |-> DaysFromCivil(year, 12, 25), name |-> "Noel"] >>

getPublicHolidays(year) ==
    Const(getEasterDate(year), LAMBDA easter :
        Const(getTime(easter), LAMBDA easterMs : HolidayList(year, easterMs)))

\* a lookup in the holiday list of one fixed year, by month and day
isPublicHoliday_ThisYear(date) ==
    LET holidays == getPublicHolidays(2026)
        hits == {i \in 1..Len(holidays) :
                    /\ CivilFromDays(holidays[i].date).month = CivilFromDays(date).month
                    /\ CivilFromDays(holidays[i].date).day = CivilFromDays(date).day}
    IN  IF hits = {} THEN Null
        ELSE holidays[CHOOSE i \in hits : \A j \in hits : i <= j]

\* holidays.find(h => same year, month and day): the first match, or undefined
isPublicHoliday(date) ==
    Const(getPublicHolidays(CivilFromDays(date).year), LAMBDA holidays :
        LET hits == {i \in 1..Len(holidays) :
                        CivilFromDays(holidays[i].date) = CivilFromDays(date)}
        IN  IF hits = {} THEN Null
            ELSE holidays[CHOOSE i \in hits : \A j \in hits : i <= j])

isSunday_Monday(date) == getDay(date) = 1

isSunday(date) == getDay(date) = 0

(***************************************************************************)
(* getISOWeek: the key "YYYY-Sww" as a sequence of characters              *)
(***************************************************************************)
RECURSIVE DigitsOf(_)
DigitsOf(n) ==
    IF n < 10 THEN <<Digits[n + 1]>>
    ELSE Append(DigitsOf(n \div 10), Digits[(n % 10) + 1])

\* s.padStart(2, '0')
PadStart2(s) == IF Len(s) < 2 THEN <<"0">> \o s ELSE s

\* a week key that takes Sunday (getUTCDay() = 0) as the day before Monday
getISOWeek_SundayFirst(date) ==
    LET d == date + 4 - getDay(date)
        year == CivilFromDays(d).year
        weekNo == ((d - DaysFromCivil(year, 1, 1)) + 1 + 6) \div 7
    IN  DigitsOf(year) \o <<"-", "S">> \o PadStart2(DigitsOf(weekNo))

getISOWeek(date) ==
    LET d0 == date
        dayNum == IF getDay(d0) = 0 THEN 7 ELSE getDay(d0)
        d == d0 + 4 - dayNum
        year == CivilFromDays(d).year
        yearStart == DaysFromCivil(year, 1, 1)
        \* Math.ceil(((d - yearStart) / 86400000 + 1) / 7)
        weekNo == ((d - yearStart) + 1 + 6) \div 7
    IN  DigitsOf(year) \o <<"-", "S">> \o PadStart2(DigitsOf(weekNo))

(***************************************************************************)
(* Warnings                                                                *)
(***************************************************************************)
\* a break check that starts only above 6 hours
getDailyWarnings_AboveSix(entry, hoursWorked) ==
    LET w1 == IF Greater(hoursWorked, CONFIG.dailyMaxHours)
              THEN << [type |-> "error",
                       message |-> "Depassement duree maximale quotidienne (10h)"] >>
              ELSE <<>>
        w2 == IF /\ Greater(hoursWorked, minutesToHours(CONFIG.mandatoryBreakAfterMinutes))
                 /\ parseIntOrZero(entry.breakDuration) < CONFIG.mandatoryBreakMinutes
              THEN << [type |-> "warning",
                       message |-> "Pause obligatoire de 20 min apres 6h de travail"] >>
              ELSE <<>>
    IN  w1 \o w2

getDailyWarnings(entry, hoursWorked) ==
    LET w1 == IF Greater(hoursWorked, CONFIG.dailyMaxHours)
              THEN << [type |-> "error",
                       message |-> "Depassement duree maximale quotidienne (10h)"] >>
              ELSE <<>>
        w2 == IF /\ GreaterEq(hoursWorked, minutesToHours(CONFIG.mandatoryBreakAfterMinutes))
                 /\ parseIntOrZero(entry.breakDuration) < CONFIG.mandatoryBreakMinutes
              THEN << [type |-> "warning",
                       message |-> "Pause obligatoire de 20 min apres 6h de travail"] >>
              ELSE <<>>
    IN  w1 \o w2

\* two independent checks: above 48h both warnings are pushed
getWeeklyWarnings_BothChecks(weeklyHours) ==
    (IF Greater(weeklyHours, CONFIG.weeklyMaxHours)
     THEN << [type |-> "error",
              message |-> "Depassement duree maximale hebdomadaire (48h)"] >>
     ELSE <<>>)
    \o
    (IF Greater(weeklyHours, CONFIG.weeklyAvgMaxHours)
     THEN << [type |-> "warning",
              message |-> "Attention : 44h max en moyenne sur 12 semaines"] >>
     ELSE <<>>)

getWeeklyWarnings(weeklyHours) ==
    IF Greater(weeklyHours, CONFIG.weeklyMaxHours)
    THEN << [type |-> "error",
             message |-> "Depassement duree maximale hebdomadaire (48h)"] >>
    ELSE IF Greater(weeklyHours, CONFIG.weeklyAvgMaxHours)
         THEN << [type |-> "warning",
                  message |-> "Attention : 44h max en moyenne sur 12 semaines"] >>
         ELSE <<>>

(***************************************************************************)
(* JavaScript objects with string keys: a sequence of <<key, value>> in    *)
(* insertion order (the order Object.entries lists them)                   *)
(***************************************************************************)
MapHas(m, k) == \E i \in 1..Len(m) : m[i][1] = k

\* a read that takes the value of the first key, whatever the key asked for
MapGet_FirstBucket(m, k) == m[1][2]

MapGet(m, k) == m[CHOOSE i \in 1..Len(m) : m[i][1] = k][2]

\* an update that deletes the key and adds it again, moving it to the end
MapSet_MoveToEnd(m, k, v) == Append(SelectSeq(m, LAMBDA kv : kv[1] # k), <<k, v>>)

MapSet(m, k, v) ==
    IF MapHas(m, k)
    THEN [i \in 1..Len(m) |-> IF m[i][1] = k THEN <<k, v>> ELSE m[i]]
    ELSE Append(m, <<k, v>>)

\* an initialisation that resets the key at every entry
MapInitZero_AlwaysReset(m, k) == MapSet(m, k, 0)

\* if (!map[k]) map[k] = 0: undefined, 0 and NaN are falsy
MapInitZero(m, k) ==
    IF ~MapHas(m, k) \/ MapGet(m, k) = 0 \/ MapGet(m, k) = NaN THEN MapSet(m, k, 0) ELSE m

\* map[k] || 0
MapGetOrZero(m, k) == IF MapHas(m, k) THEN MapGet(m, k) ELSE 0

(***************************************************************************)
(* Inputs                                                                  *)
(***************************************************************************)
ContractBases == {24, 32, 35, 39}

Entry(date, start, end, breakDuration) ==
    [date |-> date, start |-> start, end |-> end, breakDuration |-> breakDuration]

DateString(year, month, day) == [year |-> year, month |-> month, day |-> day]

\* times on the half hour
TimeInputs == {TimeString(h, m) : h \in 0..23, m \in {0, 30}}

BreakInputs == {0, 20, 60, 120, 1500}

\* entries for the calls of calculateDailyHours / calculateNightHours
CallEntryInputs ==
    {Entry(DateString(2022, 4, 25), s, e, b) :
        s \in TimeInputs \cup {<<>>}, e \in TimeInputs \cup {<<>>}, b \in BreakInputs}

\* weekly totals: every quarter of an hour, and the hundredths next to each threshold
WeeklyHoursInputs ==
    {25 * q : q \in 0..MaxWeeklyQuarterHours}
        \cup {H(35) - 1, H(35) + 1, H(39) - 1, H(39) + 1, H(43) - 1, H(43) + 1}

RateInputs == {Null, Num(0), Num(-1000), Num(10005), Num(15000)}

PayHoursInputs ==
    {50 * q : q \in 0..MaxPayHalfHours} \cup {733, H(35) + 1, H(39) + 1, H(43) + 1}

PremiumHoursInputs == {0, 50, 733}

\* the entry lists handed to processEntries
\* 2022-04-18 Easter Monday, 2022-04-24 a Sunday, 2022-04-25 a Monday,
\* 2022-05-01 a Sunday and Labour Day
ProcDateInputs ==
    {DateString(2022, 4, 18), DateString(2022, 4, 24),
     DateString(2022, 4, 25), DateString(2022, 5, 1)}

\* a day off, an 18-hour overnight shift with a 30-minute break, a 24-hour shift:
\* weeks of two such days fall in 35h-39h (36h), 39h-43h (42h) and above 43h (48h),
\* weeks of three above 48h
ProcShiftInputs ==
    { <<<<>>, <<>>, 0>>,
      <<TimeString(22, 0), TimeString(16, 30), 30>>,
      <<TimeString(0, 0), TimeString(0, 0), 0>> }

ProcEntryInputs == {Entry(d, sh[1], sh[2], sh[3]) : d \in ProcDateInputs, sh \in ProcShiftInputs}

ProcEntryLists == UNION {[1..n -> ProcEntryInputs] : n \in 0..MaxEntries}

ProcRateInputs == {Null, Num(0), Num(-1000), Num(10005)}

ProcBaseInputs == {35, 39}

(***************************************************************************)
(* Objects built by the functions.  The heap holds, besides CONFIG, the    *)
(* structures that calculateOvertime and calculatePay build and return:    *)
(* the brackets array, the overtime result that refers to it, and the pay  *)
(* object that refers to its breakdown.                                    *)
(***************************************************************************)
\* brackets: [] evaluates to an array that did not exist before
NewArray_ConfigTable(h) == ConfigBracketsRef

NewArray(h) == Len(h) + 1

\* calculateOvertime: the array of result.brackets with the brackets pushed to
\* it, then the result object; ov is the value of the result
AllocOvertime(h, ov) ==
    LET a == NewArray(h)
        h1 == IF a = Len(h) + 1 THEN Append(h, ArrayOf(ov.brackets))
              ELSE [h EXCEPT ![a].items = @ \o ov.brackets]
    IN  Append(h1, ObjectOf("overtime", [ov EXCEPT !.brackets = a]))

\* calculatePay: nothing when it returns null; else the overtime result of its
\* inner call, then the pay object whose breakdown is that result
AllocPay(h, pay) ==
    IF pay = Null THEN h
    ELSE LET h1 == AllocOvertime(h, pay.breakdown)
         IN  Append(h1, ObjectOf("pay", [pay EXCEPT !.breakdown = Len(h1)]))

(***************************************************************************)
(* Calls of the pure engine functions                                      *)
(***************************************************************************)
NoCall == [fn |-> "none", done |-> TRUE]

\* the calls a caller can make, before they run
PendingCalls ==
    {[fn |-> "calculateOvertime", done |-> FALSE, weeklyHours |-> h, contractBase |-> b] :
        h \in WeeklyHoursInputs, b \in ContractBases}
    \cup
    {[fn |-> f, done |-> FALSE, entry |-> e] :
        f \in {"calculateDailyHours", "calculateNightHours"}, e \in CallEntryInputs}
    \cup
    {[fn |-> "calculatePay", done |-> FALSE, weeklyHours |-> h, hourlyRate |-> r,
      contractBase |-> b, sundayHours |-> sh, holidayHours |-> hh] :
        h \in PayHoursInputs, r \in RateInputs, b \in ContractBases,
        sh \in PremiumHoursInputs, hh \in PremiumHoursInputs}

CallCalculateOvertime ==
    /\ call.fn = "calculateOvertime" /\ ~call.done
    /\ call' = [fn |-> call.fn, done |-> TRUE,
                weeklyHours |-> call.weeklyHours, contractBase |-> call.contractBase,
                ret |-> calculateOvertime(call.weeklyHours, call.contractBase)]
    /\ heap' = AllocOvertime(heap, calculateOvertime(call.weeklyHours, call.contractBase))
    /\ UNCHANGED <<procVars, restVars>>

CallCalculateDailyHours ==
    /\ call.fn = "calculateDailyHours" /\ ~call.done
    /\ call' = [fn |-> call.fn, done |-> TRUE, entry |-> call.entry,
                ret |-> calculateDailyHours(call.entry)]
    /\ UNCHANGED <<procVars, heap, restVars>>

CallCalculateNightHours ==
    /\ call.fn = "calculateNightHours" /\ ~call.done
    /\ call' = [fn |-> call.fn, done |-> TRUE, entry |-> call.entry,
                ret |-> calculateNightHours(call.entry)]
    /\ UNCHANGED <<procVars, heap, restVars>>

CallCalculatePay ==
    /\ call.fn = "calculatePay" /\ ~call.done
    /\ call' = [fn |-> call.fn, done |-> TRUE,
                weeklyHours |-> call.weeklyHours, hourlyRate |-> call.hourlyRate,
                contractBase |-> call.contractBase, sundayHours |-> call.sundayHours,
                holidayHours |-> call.holidayHours,
                ret |-> calculatePay(call.weeklyHours, call.hourlyRate, call.contractBase,
                                     call.sundayHours, call.holidayHours)]
    /\ heap' = AllocPay(heap, calculatePay(call.weeklyHours, call.hourlyRate,
                                            call.contractBase, call.sundayHours,
                                            call.holidayHours))
    /\ UNCHANGED <<procVars, restVars>>

(***************************************************************************)
(* processEntries                                                          *)
(***************************************************************************)
\* the locals as declared at the top of processEntries and before its second loop
ProcLocalsInit ==
    /\ dailyResults = <<>>
    /\ totalHours = 0
    /\ totalNightHours = 0
    /\ totalSundayHours = 0
    /\ totalHolidayHours = 0
    /\ weeklyHoursMap = <<>>
    /\ weeklySundayMap = <<>>
    /\ weeklyHolidayMap = <<>>
    /\ weeklyResults = <<>>
    /\ cumulativeOvertime = 0
    /\ totalPay = Null
    /\ result = Null

\* the module as it is after loading, before any invocation returned
ModuleLoaded ==
    /\ heap = ModuleHeap
    /\ history = <<>>

\* no request handled yet
NoExchange == [handler |-> "none"]

\* the server before it handled a request, on an empty database and without password
ServerIdle ==
    /\ authPassword = ""
    /\ sessions = {}
    /\ employees = {}
    /\ lastEmployeeId = 0
    /\ dbEntries = {}
    /\ settings = {}
    /\ exchange = NoExchange

\* let state = { ... } and let autoSaveTimer = null, before init() ran
PageLoaded ==
    /\ state = [employees |-> {}, currentEmployeeId |-> 0, entries |-> <<>>,
                quickTemplate |-> [start |-> "10:00", end |-> "19:00", breakDuration |-> 60]]
    /\ autoSaveTimer = FALSE
    /\ fetches = {}
    /\ entriesOwner = 0

\* the engine used on its own
Standalone == ServerIdle /\ PageLoaded

\* one iteration of: for (const entry of entries) { ... }
DayStep ==
    /\ pc = "running"
    /\ Len(dailyResults) < Len(entries)
    /\ LET entry == entries[Len(dailyResults) + 1]
           date == NewDate(entry.date)
           hoursWorked == calculateDailyHours(entry)
           nightHours == calculateNightHours(entry)
           holiday == isPublicHoliday(date)
           sunday == isSunday(date)
           warnings == getDailyWarnings(entry, hoursWorked)
           weekKey == getISOWeek(date)
           hoursMap0 == MapInitZero(weeklyHoursMap, weekKey)
           sundayMap0 == MapInitZero(weeklySundayMap, weekKey)
           holidayMap0 == MapInitZero(weeklyHolidayMap, weekKey)
       IN  /\ weeklyHoursMap' =
                 MapSet(hoursMap0, weekKey, Plus(MapGet(hoursMap0, weekKey), hoursWorked))
           /\ weeklySundayMap' =
                 IF sunday /\ Greater(hoursWorked, 0)
                 THEN MapSet(sundayMap0, weekKey, MapGet(sundayMap0, weekKey) + hoursWorked)
                 ELSE sundayMap0
           /\ totalSundayHours' =
                 IF sunday /\ Greater(hoursWorked, 0) THEN totalSundayHours + hoursWorked
                 ELSE totalSundayHours
           /\ weeklyHolidayMap' =
                 IF holiday # Null /\ Greater(hoursWorked, 0)
                 THEN MapSet(holidayMap0, weekKey, MapGet(holidayMap0, weekKey) + hoursWorked)
                 ELSE holidayMap0
           /\ totalHolidayHours' =
                 IF holiday # Null /\ Greater(hoursWorked, 0) THEN totalHolidayHours + hoursWorked
                 ELSE totalHolidayHours
           /\ totalHours' = Plus(totalHours, hoursWorked)
           /\ totalNightHours' = totalNightHours + nightHours
           /\ dailyResults' = Append(dailyResults,
                 [ date |-> entry.date,
                   dayName |-> dayNameOf(date),
                   hoursWorked |-> hoursWorked,
                   nightHours |-> nightHours,
                   isHoliday |-> holiday # Null,
                   holidayName |-> IF holiday # Null THEN holiday.name ELSE "",
                   isSunday |-> sunday,
                   warnings |-> warnings,
                   start |-> entry.start,
                   end |-> entry.end,
                   breakDuration |-> entry.breakDuration ])
    /\ UNCHANGED <<heap, restVars, call, pc, entries, hourlyRate, contractBase, weeklyResults,
                   cumulativeOvertime, totalPay, result>>

\* one iteration of: for (const [weekKey, hours] of Object.entries(weeklyHoursMap)) { ... }
WeekStep ==
    /\ pc = "running"
    /\ Len(dailyResults) = Len(entries)
    /\ Len(weeklyResults) < Len(weeklyHoursMap)
    /\ LET weekKey == weeklyHoursMap[Len(weeklyResults) + 1][1]
           hours == weeklyHoursMap[Len(weeklyResults) + 1][2]
           sundayH == MapGetOrZero(weeklySundayMap, weekKey)
           holidayH == MapGetOrZero(weeklyHolidayMap, weekKey)
           overtime == calculateOvertime(hours, contractBase)
           warnings == getWeeklyWarnings(hours)
           pay == calculatePay(hours, hourlyRate, contractBase, sundayH, holidayH)
       IN  /\ cumulativeOvertime' = Plus(cumulativeOvertime, overtime.totalOvertime)
           /\ weeklyResults' = Append(weeklyResults,
                 [ week |-> weekKey,
                   totalHours |-> Round2(hours),
                   overtime |-> overtime,
                   warnings |-> warnings,
                   pay |-> pay,
                   sundayHours |-> Round2(sundayH),
                   holidayHours |-> Round2(holidayH),
                   cumulativeOvertime |->
                      Round2(Plus(cumulativeOvertime, overtime.totalOvertime)) ])
           /\ heap' = AllocPay(AllocOvertime(heap, overtime), pay)
    /\ UNCHANGED <<restVars, call, pc, entries, hourlyRate, contractBase, dailyResults, totalHours,
                   totalNightHours, totalSundayHours, totalHolidayHours, weeklyHoursMap,
                   weeklySundayMap, weeklyHolidayMap, totalPay, result>>

\* the sum of field f of the weekly pays that are not null
RECURSIVE SumPay(_, _)
SumPay(ws, f) ==
    IF ws = <<>> THEN 0
    ELSE Plus(IF Head(ws).pay # Null THEN Head(ws).pay[f] ELSE 0, SumPay(Tail(ws), f))

\* Total pay across all weeks
TotalPayOf_NullOnlyWhenAbsent(ws, rate) ==
    IF rate # Null
    THEN [ regular |-> Round2(SumPay(ws, "regularPay")),
           structural |-> Round2(SumPay(ws, "structuralPay")),
           overtime |-> Round2(SumPay(ws, "overtimePay")),
           sundayPremium |-> Round2(SumPay(ws, "sundayPremium")),
           holidayPremium |-> Round2(SumPay(ws, "holidayPremium")),
           total |-> Round2(SumPay(ws, "totalPay")) ]
    ELSE Null

TotalPayOf(ws, rate) ==
    IF rate # Null /\ rate.num > 0
    THEN [ regular |-> Round2(SumPay(ws, "regularPay")),
           structural |-> Round2(SumPay(ws, "structuralPay")),
           overtime |-> Round2(SumPay(ws, "overtimePay")),
           sundayPremium |-> Round2(SumPay(ws, "sundayPremium")),
           holidayPremium |-> Round2(SumPay(ws, "holidayPremium")),
           total |-> Round2(SumPay(ws, "totalPay")) ]
    ELSE Null

\* the total pay and the return statement
Return ==
    /\ pc = "running"
    /\ Len(dailyResults) = Len(entries)
    /\ Len(weeklyResults) = Len(weeklyHoursMap)
    /\ totalPay' = TotalPayOf(weeklyResults, hourlyRate)
    /\ result' = [ dailyResults |-> dailyResults,
                   weeklyResults |-> weeklyResults,
                   totalHours |-> Round2(totalHours),
                   totalNightHours |-> Round2(totalNightHours),
                   totalSundayHours |-> Round2(totalSundayHours),
                   totalHolidayHours |-> Round2(totalHolidayHours),
                   totalOvertime |-> Round2(cumulativeOvertime),
                   totalPay |-> TotalPayOf(weeklyResults, hourlyRate),
                   contractBase |-> contractBase ]
    /\ pc' = "done"
    /\ UNCHANGED <<heap, restVars, call, entries, hourlyRate, contractBase, dailyResults, totalHours,
                   totalNightHours, totalSundayHours, totalHolidayHours, weeklyHoursMap,
                   weeklySundayMap, weeklyHolidayMap, weeklyResults, cumulativeOvertime>>

(***************************************************************************)
(* Specifications                                                          *)
(***************************************************************************)
\* one invocation of processEntries on an entry list
Init ==
    /\ call = NoCall
    /\ pc = "running"
    /\ entries \in ProcEntryLists
    /\ hourlyRate \in ProcRateInputs
    /\ contractBase \in ProcBaseInputs
    /\ ProcLocalsInit
    /\ ModuleLoaded
    /\ Standalone

Next == DayStep \/ WeekStep \/ Return

Spec == Init /\ [][Next]_vars

\* one call of a pure function on arguments drawn from the input sets
InitCalc ==
    /\ call \in PendingCalls
    /\ pc = "idle"
    /\ entries = <<>>
    /\ hourlyRate = Null
    /\ contractBase = 35
    /\ ProcLocalsInit
    /\ ModuleLoaded
    /\ Standalone

NextCalc ==
    \/ CallCalculateOvertime
    \/ CallCalculateDailyHours
    \/ CallCalculateNightHours
    \/ CallCalculatePay

SpecCalc == InitCalc /\ [][NextCalc]_vars

(***************************************************************************)
(* Properties                                                              *)
(***************************************************************************)
Done(fn) == call.fn = fn /\ call.done

\* the hours and rate of each recorded bracket, in order
BracketShape(brackets) ==
    [i \in 1..Len(brackets) |-> [hours |-> brackets[i].hours, rate |-> brackets[i].rate]]

\* the non-empty ones among: b1 hours at 1.25, then b2 hours at 1.50
ExpectedBrackets(b1, b2) ==
    (IF b1 > 0 THEN <<[hours |-> b1, rate |-> 5]>> ELSE <<>>)
        \o (IF b2 > 0 THEN <<[hours |-> b2, rate |-> 6]>> ELSE <<>>)

\* C1: for every weekly total h >= 0 and every contract base other than 39,
\* calculateOvertime returns regularHours = min(h, 35), structuralHours = 0,
\* totalOvertime = max(h - 35, 0), and the brackets min(max(h - 35, 0), 8) hours at
\* 1.25 then max(h - 43, 0) hours at 1.50, the zero-hour ones left out.
C1_OvertimeBase35 ==
    (Done("calculateOvertime") /\ call.contractBase # 39) =>
        LET h == call.weeklyHours
            r == call.ret
        IN  /\ r.regularHours = Min(h, H(35))
            /\ r.structuralHours = 0
            /\ r.totalOvertime = Max(h - H(35), 0)
            /\ BracketShape(r.brackets)
                  = ExpectedBrackets(Min(Max(h - H(35), 0), H(8)), Max(h - H(43), 0))

\* classify(45, 35): 8h at 1.25 then 2h at 1.50, regularHours 35
C1_Witness ==
    /\ Done("calculateOvertime")
    /\ call.contractBase = 35
    /\ call.weeklyHours = H(45)
    /\ call.ret.regularHours = H(35)
    /\ BracketShape(call.ret.brackets) = <<[hours |-> H(8), rate |-> 5], [hours |-> H(2), rate |-> 6]>>

\* C2: for every weekly total h >= 0 with contract base 39, calculateOvertime returns
\* regularHours = min(h, 35), structuralHours = min(max(h - 35, 0), 4),
\* totalOvertime = max(h - 39, 0), and the brackets min(max(h - 39, 0), 4) hours at
\* 1.25 then max(h - 43, 0) hours at 1.50.
C2_OvertimeBase39 ==
    (Done("calculateOvertime") /\ call.contractBase = 39) =>
        LET h == call.weeklyHours
            r == call.ret
        IN  /\ r.regularHours = Min(h, H(35))
            /\ r.structuralHours = Min(Max(h - H(35), 0), H(4))
            /\ r.totalOvertime = Max(h - H(39), 0)
            /\ BracketShape(r.brackets)
                  = ExpectedBrackets(Min(Max(h - H(39), 0), H(4)), Max(h - H(43), 0))

\* classify(41, 39): structuralHours 4, regularHours 35, one bracket of 2h at 1.25
C2_Witness ==
    /\ Done("calculateOvertime")
    /\ call.contractBase = 39
    /\ call.weeklyHours = H(41)
    /\ call.ret.structuralHours = H(4)
    /\ call.ret.regularHours = H(35)
    /\ BracketShape(call.ret.brackets) = <<[hours |-> H(2), rate |-> 5]>>

BothPresent(entry) == entry.start # <<>> /\ entry.end # <<>>

\* the span the claims speak of: end - start, wrapped over midnight when end <= start
SpanMinutes(entry) ==
    LET s == timeToMinutes(entry.start)
        e == timeToMinutes(entry.end)
    IN  IF e > s THEN e - s ELSE e + 1440 - s

\* C3: with start and end present calculateDailyHours takes the span end - start
\* when end > start and end + 1440 - start when end <= start, subtracts the break
\* and converts to hours (never below 0); it returns 0 when start or end is missing.
C3_DailyHoursSpan ==
    Done("calculateDailyHours") =>
        IF BothPresent(call.entry)
        THEN call.ret = Max(0, minutesToHours(SpanMinutes(call.entry) - call.entry.breakDuration))
        ELSE call.ret = 0

\* start = end with no break counts as a 24-hour span
C3_Witness ==
    /\ Done("calculateDailyHours")
    /\ call.entry.start = TimeString(22, 0)
    /\ call.entry.end = TimeString(22, 0)
    /\ call.entry.breakDuration = 0
    /\ call.ret = H(24)

\* C4: calculateDailyHours never returns a negative value, and returns exactly 0
\* whenever the break is at least as long as the start-to-end span.
C4_DailyHoursNonNegative ==
    Done("calculateDailyHours") =>
        /\ call.ret >= 0
        /\ (BothPresent(call.entry) /\ call.entry.breakDuration >= SpanMinutes(call.entry))
              => call.ret = 0

\* 09:00 to 10:00 with a 120-minute break gives 0
C4_Witness ==
    /\ Done("calculateDailyHours")
    /\ call.entry.start = TimeString(9, 0)
    /\ call.entry.end = TimeString(10, 0)
    /\ call.entry.breakDuration = 120
    /\ call.ret = 0

\* the minutes t of the shift [s, e) that are night minutes: 21:00-24:00 or
\* 00:00-06:00 of the start day, or 00:00-06:00 of the next day
NightMinutesOfShift(s, e) ==
    Cardinality({t \in s..(e - 1) : \/ t < 360
                                    \/ (1260 <= t /\ t < 1440)
                                    \/ (1440 <= t /\ t < 1440 + 360)})

\* C5: with start and end present, calculateNightHours is the number of minutes of
\* the shift (extended by 1440 when end <= start) lying in 21:00-24:00 or 00:00-06:00
\* of the start day or, past midnight, in 00:00-06:00 of the next day, divided by 60.
C5_NightHoursWindow ==
    (Done("calculateNightHours") /\ BothPresent(call.entry)) =>
        LET s == timeToMinutes(call.entry.start)
        IN  call.ret = minutesToHours(NightMinutesOfShift(s, s + SpanMinutes(call.entry)))

PaidCall == Done("calculatePay") /\ call.ret # Null

\* the unrounded pay of h weekly hours at the weekly scale of both contract bases:
\* hours up to 35 at 100%, the 36th to 43rd at 125%, the rest at 150%
ScalePay(h, rate) ==
    rate * (4 * Min(h, H(35)) + 5 * Min(Max(h - H(35), 0), H(8)) + 6 * Max(h - H(43), 0))

\* the unrounded Sunday and holiday premiums
PremiumPay(sundayHours, holidayHours, rate) == rate * (2 * sundayHours + 4 * holidayHours)

Abs(x) == IF x < 0 THEN -x ELSE x

\* C6 (as stated): the returned totalPay is the sum of the returned regularPay,
\* overtimePay, sundayPremium and holidayPremium, each already rounded to 2 decimals.
C6_TotalIsSumOfRoundedParts ==
    PaidCall =>
        call.ret.totalPay = call.ret.regularPay + call.ret.overtimePay
                                + call.ret.sundayPremium + call.ret.holidayPremium

\* C6 (amended): the returned totalPay is the sum of the unrounded base, overtime,
\* Sunday-premium and holiday-premium amounts rounded once to 2 decimals; the returned
\* parts are rounded one by one, so totalPay is within 0.02 of their sum.
C6_TotalIsRoundedSum ==
    PaidCall =>
        LET r == call.ret
            rate == call.hourlyRate.num
        IN  /\ r.totalPay = RoundMoney(ScalePay(call.weeklyHours, rate)
                                + PremiumPay(call.sundayHours, call.holidayHours, rate))
            /\ r.sundayPremium = RoundMoney(PremiumPay(call.sundayHours, 0, rate))
            /\ r.holidayPremium = RoundMoney(PremiumPay(0, call.holidayHours, rate))
            /\ Abs(r.totalPay - (r.regularPay + r.overtimePay
                                    + r.sundayPremium + r.holidayPremium)) <= 2

\* a pay whose total is not the sum of its rounded parts
C6_Witness ==
    /\ PaidCall
    /\ call.ret.totalPay # call.ret.regularPay + call.ret.overtimePay
                               + call.ret.sundayPremium + call.ret.holidayPremium

\* C7: with base 39, structuralPay = structuralHours x rate x 1.25, regularPay
\* includes that amount, and it enters totalPay once; with any other base
\* structuralPay is 0 and regularPay = regularHours x rate.
C7_StructuralPaidOnce ==
    PaidCall =>
        LET r == call.ret
            h == call.weeklyHours
            rate == call.hourlyRate.num
            regularRaw == rate * 4 * Min(h, H(35))
            structuralRaw == rate * 5 * Min(Max(h - H(35), 0), H(4))
            overtimeRaw39 == rate * (5 * Min(Max(h - H(39), 0), H(4)) + 6 * Max(h - H(43), 0))
            premiums == PremiumPay(call.sundayHours, call.holidayHours, rate)
        IN  IF call.contractBase = 39
            THEN /\ r.structuralPay = RoundMoney(structuralRaw)
                 /\ r.regularPay = RoundMoney(regularRaw + structuralRaw)
                 /\ r.totalPay = RoundMoney(regularRaw + structuralRaw + overtimeRaw39 + premiums)
            ELSE /\ r.structuralPay = 0
                 /\ r.regularPay = RoundMoney(regularRaw)

\* a 39h-base week past 39h: structural hours are paid, inside regularPay
C7_Witness ==
    /\ PaidCall
    /\ call.contractBase = 39
    /\ call.weeklyHours = H(41)
    /\ call.ret.structuralPay > 0
    /\ call.ret.regularPay > call.ret.structuralPay
    /\ call.ret.overtimePay > 0

\* C8: for the same weekly hours, rate, Sunday hours and holiday hours, calculatePay
\* with base 35 and with base 39 return the same totalPay (and the same premiums);
\* only the split between regularPay, structuralPay and overtimePay differs.
C8_SameTotalBothBases ==
    (Done("calculatePay") /\ call.contractBase = 39) =>
        LET other == calculatePay(call.weeklyHours, call.hourlyRate, 35,
                                  call.sundayHours, call.holidayHours)
        IN  IF call.ret = Null THEN other = Null
            ELSE /\ other # Null
                 /\ call.ret.totalPay = other.totalPay
                 /\ call.ret.totalPay = RoundMoney(ScalePay(call.weeklyHours, call.hourlyRate.num)
                        + PremiumPay(call.sundayHours, call.holidayHours, call.hourlyRate.num))
                 /\ call.ret.sundayPremium = other.sundayPremium
                 /\ call.ret.holidayPremium = other.holidayPremium

\* a 39h-base week of 45h: the split differs from base 35, the total does not
C8_Witness ==
    /\ PaidCall
    /\ call.contractBase = 39
    /\ call.weeklyHours = H(45)
    /\ call.ret.structuralPay > 0
    /\ call.ret.overtimePay
          # calculatePay(call.weeklyHours, call.hourlyRate, 35,
                         call.sundayHours, call.holidayHours).overtimePay
    /\ call.ret.totalPay
          = calculatePay(call.weeklyHours, call.hourlyRate, 35,
                         call.sundayHours, call.holidayHours).totalPay

Returned == pc = "done"

RatePositive == hourlyRate # Null /\ hourlyRate.num > 0

\* the sum of hoursWorked over the daily results that satisfy keep
SumDays(days, keep(_)) ==
    SeqSum([i \in 1..Len(days) |-> IF keep(days[i]) THEN days[i].hoursWorked ELSE 0])

\* the distinct week keys of the entries
WeekKeysOf(es) == {getISOWeek(NewDate(es[i].date)) : i \in 1..Len(es)}

\* C9: whenever the hourly rate is absent or <= 0, processEntries returns
\* totalPay = null and pay = null in every weekly result, while still returning the
\* hour totals, overtime breakdowns and warnings; whenever the rate is > 0 every
\* weekly result has a pay and totalPay is present.
C9_PayOnlyWithPositiveRate ==
    Returned =>
        /\ Len(result.dailyResults) = Len(entries)
        /\ Len(result.weeklyResults) = Cardinality(WeekKeysOf(entries))
        /\ result.totalHours = SumDays(result.dailyResults, LAMBDA d : TRUE)
        /\ \A i \in 1..Len(result.weeklyResults) :
              LET w == result.weeklyResults[i]
              IN  /\ w.overtime.regularHours + w.overtime.structuralHours
                        + w.overtime.totalOvertime = w.totalHours
                  /\ (w.totalHours > H(48)) = (w.warnings # <<>> /\ w.warnings[1].type = "error")
        /\ IF RatePositive
           THEN /\ result.totalPay # Null
                /\ \A i \in 1..Len(result.weeklyResults) : result.weeklyResults[i].pay # Null
           ELSE /\ result.totalPay = Null
                /\ \A i \in 1..Len(result.weeklyResults) : result.weeklyResults[i].pay = Null

\* a returned period with a worked week, overtime and a weekly warning, and a rate of 0
C9_Witness ==
    /\ Returned
    /\ hourlyRate = Num(0)
    /\ Len(result.weeklyResults) = 1
    /\ result.totalOvertime > 0
    /\ result.weeklyResults[1].warnings # <<>>
    /\ result.weeklyResults[1].pay = Null
    /\ result.totalPay = Null

\* the calendar of the entry dates: 2022-04-24 and 2022-05-01 are Sundays,
\* 2022-04-18 (Easter Monday) and 2022-05-01 (Labour Day) are public holidays
SundayDates == {DateString(2022, 4, 24), DateString(2022, 5, 1)}

HolidayDates == {DateString(2022, 4, 18), DateString(2022, 5, 1)}

\* C10: the hours worked on a Sunday (or a public holiday) stay counted once in the
\* week's totalHours and are also accumulated into the week's sundayHours (or
\* holidayHours), which yield sundayPremium = sundayHours x rate x 0.50 and
\* holidayPremium = holidayHours x rate x 1.00 on top of regular/overtime pay; a day
\* that is both counts for both premiums, a day that is neither for none.
C10_SundayHolidayPremiums ==
    Returned =>
        /\ result.totalSundayHours
              = SumDays(result.dailyResults, LAMBDA d : d.date \in SundayDates)
        /\ result.totalHolidayHours
              = SumDays(result.dailyResults, LAMBDA d : d.date \in HolidayDates)
        /\ \A i \in 1..Len(result.weeklyResults) :
              LET w == result.weeklyResults[i]
                  inWeek(d) == getISOWeek(NewDate(d.date)) = w.week
                  sundayH == SumDays(result.dailyResults,
                                     LAMBDA d : inWeek(d) /\ d.date \in SundayDates)
                  holidayH == SumDays(result.dailyResults,
                                      LAMBDA d : inWeek(d) /\ d.date \in HolidayDates)
              IN  /\ w.totalHours = SumDays(result.dailyResults, inWeek)
                  /\ w.sundayHours = sundayH
                  /\ w.holidayHours = holidayH
                  /\ w.pay # Null =>
                        /\ w.pay.sundayPremium = RoundMoney(sundayH * hourlyRate.num * 2)
                        /\ w.pay.holidayPremium = RoundMoney(holidayH * hourlyRate.num * 4)
                        /\ w.pay.totalPay
                              = RoundMoney(ScalePay(w.totalHours, hourlyRate.num)
                                    + PremiumPay(sundayH, holidayH, hourlyRate.num))

\* a paid week with a worked plain Monday and a worked Sunday that is also a
\* holiday: the Sunday's hours are in the weekly total once and in both premiums
C10_Witness ==
    /\ Returned
    /\ RatePositive
    /\ Len(entries) = 2
    /\ entries[1].date = DateString(2022, 4, 25) /\ result.dailyResults[1].hoursWorked > 0
    /\ entries[2].date = DateString(2022, 5, 1) /\ result.dailyResults[2].hoursWorked > 0
    /\ Len(result.weeklyResults) = 1
    /\ result.weeklyResults[1].sundayHours = result.dailyResults[2].hoursWorked
    /\ result.weeklyResults[1].holidayHours = result.dailyResults[2].hoursWorked
    /\ result.weeklyResults[1].totalHours
          = result.dailyResults[1].hoursWorked + result.dailyResults[2].hoursWorked
    /\ result.weeklyResults[1].pay.sundayPremium > 0
    /\ result.weeklyResults[1].pay.holidayPremium > result.weeklyResults[1].pay.sundayPremium

(***************************************************************************)
(* Weeks of a period                                                       *)
(***************************************************************************)
MaxWeekDays == 6

MaxOrderEntries == 4

\* the office day of the examples (09:00-17:00, 60 minutes of break: 7h) and the
\* short day (09:00-15:00, no break: 6h)
WeekShiftInputs ==
    { <<TimeString(9, 0), TimeString(17, 0), 60>>,
      <<TimeString(9, 0), TimeString(15, 0), 0>> }

\* the date string of the day n days after a date
DateStringPlus(year, month, day, n) ==
    LET c == CivilFromDays(DaysFromCivil(year, month, day) + n)
    IN  DateString(c.year, c.month, c.day)

\* the first days of the week of Monday 2022-04-25, one entry per day, in order
WeekEntryLists ==
    UNION { { [i \in 1..n |-> Entry(DateStringPlus(2022, 4, 25, i - 1),
                                     f[i][1], f[i][2], f[i][3])] :
                f \in [1..n -> WeekShiftInputs] } : n \in 0..MaxWeekDays }

\* 24-hour days over three consecutive weeks, in any order
OrderDateInputs == ProcDateInputs \cup {DateString(2022, 5, 2)}

OrderEntryInputs ==
    {Entry(d, TimeString(0, 0), TimeString(0, 0), 0) : d \in OrderDateInputs}

OrderEntryLists == UNION {[1..n -> OrderEntryInputs] : n \in 0..MaxOrderEntries}

\* one invocation of processEntries on the entries of one to three weeks
InitWeek ==
    /\ call = NoCall
    /\ pc = "running"
    /\ entries \in ProcEntryLists \cup WeekEntryLists \cup OrderEntryLists
    /\ hourlyRate = Num(15000)
    /\ contractBase \in ProcBaseInputs
    /\ ProcLocalsInit
    /\ ModuleLoaded
    /\ Standalone

SpecWeek == InitWeek /\ [][Next]_vars

\* five office days, and the same with a short sixth day
FiveOfficeDays ==
    [i \in 1..5 |-> Entry(DateStringPlus(2022, 4, 25, i - 1),
                          TimeString(9, 0), TimeString(17, 0), 60)]

SixDays ==
    Append(FiveOfficeDays,
           Entry(DateString(2022, 4, 30), TimeString(9, 0), TimeString(15, 0), 0))

\* C11: processEntries yields exactly one weekly result per distinct ISO week key,
\* whose overtime equals calculateOvertime(sum of that week's daily hours, base) and
\* whose pay equals calculatePay of that sum with that week's Sunday and holiday
\* hours; the period totalOvertime is the sum of the weekly totalOvertime and
\* totalPay.total the sum of the weekly totalPay.  Five 7-hour weekdays at base 35
\* and rate 15 give totalHours 35, totalOvertime 0 and totalPay.total 525.00; with a
\* 6-hour sixth day totalHours 41, one bracket of 6h at 1.25 and totalOvertime 6.
C11_WeeklyResultsPerWeek ==
    Returned =>
        LET ws == result.weeklyResults
        IN  /\ Len(ws) = Cardinality(WeekKeysOf(entries))
            /\ {ws[i].week : i \in 1..Len(ws)} = WeekKeysOf(entries)
            /\ \A i \in 1..Len(ws) :
                  LET inWeek(d) == getISOWeek(NewDate(d.date)) = ws[i].week
                      sum == SumDays(result.dailyResults, inWeek)
                      sundayH == SumDays(result.dailyResults,
                                         LAMBDA d : inWeek(d) /\ d.date \in SundayDates)
                      holidayH == SumDays(result.dailyResults,
                                          LAMBDA d : inWeek(d) /\ d.date \in HolidayDates)
                  IN  /\ ws[i].totalHours = sum
                      /\ ws[i].overtime = calculateOvertime(sum, contractBase)
                      /\ ws[i].pay = calculatePay(sum, hourlyRate, contractBase,
                                                  sundayH, holidayH)
            /\ result.totalOvertime
                  = SeqSum([i \in 1..Len(ws) |-> ws[i].overtime.totalOvertime])
            /\ result.totalPay.total = SeqSum([i \in 1..Len(ws) |-> ws[i].pay.totalPay])
            /\ (entries = FiveOfficeDays /\ contractBase = 35) =>
                  /\ result.totalHours = H(35)
                  /\ result.totalOvertime = 0
                  /\ result.totalPay.total = 52500
            /\ (entries = SixDays /\ contractBase = 35) =>
                  /\ result.totalHours = H(41)
                  /\ Len(ws[1].overtime.brackets) = 1
                  /\ ws[1].overtime.brackets[1].hours = H(6)
                  /\ ws[1].overtime.brackets[1].rate = 5
                  /\ result.totalOvertime = H(6)

\* the six-day week of the example has been processed at base 35 and rate 15:
\* one weekly result of 41h with 6h of overtime
C11_Witness ==
    /\ Returned
    /\ entries = SixDays
    /\ contractBase = 35
    /\ Len(result.weeklyResults) = 1
    /\ result.weeklyResults[1].totalHours = H(41)
    /\ result.weeklyResults[1].overtime.totalOvertime = H(6)
    /\ result.totalPay.total = result.weeklyResults[1].pay.totalPay

(***************************************************************************)
(* Calls of the calendar functions                                         *)
(***************************************************************************)
MaxDateOffset == 760

MaxYearOffset == 200

\* every day from 2007-12-20 on: two year ends, one with a week 53
DateInputs ==
    {DaysFromCivil(2007, 12, 20) + n : n \in 0..MaxDateOffset}

YearInputs == {1900 + n : n \in 0..MaxYearOffset}

\* the first days of May and the turn of the year, in every year
ProbeDateInputs ==
    UNION { {DaysFromCivil(y, 1, 1), DaysFromCivil(y, 5, 1), DaysFromCivil(y, 5, 8),
             DaysFromCivil(y, 5, 9), DaysFromCivil(y, 12, 31)} : y \in YearInputs }

PendingDateCalls ==
    {[fn |-> "getISOWeek", done |-> FALSE, date |-> d] : d \in DateInputs}
    \cup
    {[fn |-> "isPublicHoliday", done |-> FALSE, date |-> d] :
        d \in DateInputs \cup ProbeDateInputs}
    \cup
    {[fn |-> f, done |-> FALSE, year |-> y] :
        f \in {"getEasterDate", "getPublicHolidays"}, y \in YearInputs}

CallGetISOWeek ==
    /\ call.fn = "getISOWeek" /\ ~call.done
    /\ call' = [fn |-> call.fn, done |-> TRUE, date |-> call.date,
                ret |-> getISOWeek(call.date)]
    /\ UNCHANGED <<procVars, heap, restVars>>

CallIsPublicHoliday ==
    /\ call.fn = "isPublicHoliday" /\ ~call.done
    /\ call' = [fn |-> call.fn, done |-> TRUE, date |-> call.date,
                ret |-> isPublicHoliday(call.date)]
    /\ UNCHANGED <<procVars, heap, restVars>>

CallGetEasterDate ==
    /\ call.fn = "getEasterDate" /\ ~call.done
    /\ call' = [fn |-> call.fn, done |-> TRUE, year |-> call.year,
                ret |-> getEasterDate(call.year)]
    /\ UNCHANGED <<procVars, heap, restVars>>

CallGetPublicHolidays ==
    /\ call.fn = "getPublicHolidays" /\ ~call.done
    /\ call' = [fn |-> call.fn, done |-> TRUE, year |-> call.year,
                ret |-> getPublicHolidays(call.year)]
    /\ UNCHANGED <<procVars, heap, restVars>>

\* days around the holidays of May 2008: Thursday 2008-05-01 is both Labour Day
\* and Ascension, Friday 2008-05-02 is a plain day, Thursday 2008-05-08 is Victory
\* Day, Monday 2008-05-12 is Whit Monday
HolidayDateInputs ==
    {DateString(2008, 5, 1), DateString(2008, 5, 2),
     DateString(2008, 5, 8), DateString(2008, 5, 12)}

HolidayEntryInputs ==
    {Entry(d, sh[1], sh[2], sh[3]) : d \in HolidayDateInputs, sh \in ProcShiftInputs}

HolidayEntryLists == UNION {[1..n -> HolidayEntryInputs] : n \in 0..MaxEntries}

\* one call of a calendar function on a date or a year, or one invocation of
\* processEntries on days around public holidays
InitDate ==
    \/ /\ call \in PendingDateCalls
       /\ pc = "idle"
       /\ entries = <<>>
       /\ hourlyRate = Null
       /\ contractBase = 35
       /\ ProcLocalsInit
       /\ ModuleLoaded
       /\ Standalone
    \/ /\ call = NoCall
       /\ pc = "running"
       /\ entries \in HolidayEntryLists
       /\ hourlyRate = Num(15000)
       /\ contractBase = 35
       /\ ProcLocalsInit
       /\ ModuleLoaded
       /\ Standalone

NextDate ==
    \/ CallGetISOWeek
    \/ CallIsPublicHoliday
    \/ CallGetEasterDate
    \/ CallGetPublicHolidays
    \/ DayStep
    \/ WeekStep
    \/ Return

SpecDate == InitDate /\ [][NextDate]_vars

\* ISO 8601, from the definition: the Monday of a day's week, the calendar year of
\* that week's Thursday, and the week's rank among the Thursdays of that year
RefMonday(d) == d - ((d + 3) % 7)

RefISOYear(d) ==
    CHOOSE y \in 1899..2102 :
        /\ DaysFromCivil(y, 1, 1) <= RefMonday(d) + 3
        /\ RefMonday(d) + 3 < DaysFromCivil(y + 1, 1, 1)

RefFirstThursday(y) ==
    CHOOSE t \in DaysFromCivil(y, 1, 1)..(DaysFromCivil(y, 1, 1) + 6) : RefMonday(t) + 3 = t

RefISOWeekNo(d) == ((RefMonday(d) + 3 - RefFirstThursday(RefISOYear(d))) \div 7) + 1

RefWeekKey(d) ==
    DigitsOf(RefISOYear(d)) \o <<"-", "S">> \o PadStart2(DigitsOf(RefISOWeekNo(d)))

\* C12: getISOWeek gives two dates the same key if and only if they fall in the same
\* Monday-to-Sunday week, and the key is the ISO 8601 year-week of that week: the
\* year of the week's Thursday and the rank of the week counted from the week of
\* that year's first Thursday.
C12_ISOWeekKey ==
    Done("getISOWeek") =>
        /\ call.ret = RefWeekKey(call.date)
        /\ \A d2 \in DateInputs :
              (getISOWeek(d2) = call.ret) <=> (RefMonday(d2) = RefMonday(call.date))

\* Friday 2010-01-01 carries the key of the last week of 2009, week 53
C12_Witness ==
    /\ Done("getISOWeek")
    /\ call.date = DaysFromCivil(2010, 1, 1)
    /\ call.ret = <<"2", "0", "0", "9", "-", "S", "5", "3">>
    /\ getISOWeek(DaysFromCivil(2010, 1, 4)) = <<"2", "0", "1", "0", "-", "S", "0", "1">>

\* the distinct week keys of the entries, in the order of their first occurrence
RECURSIVE KeysInOrder(_, _)
KeysInOrder(es, acc) ==
    IF es = <<>> THEN acc
    ELSE LET k == getISOWeek(NewDate(Head(es).date))
         IN  KeysInOrder(Tail(es),
                         IF \E i \in 1..Len(acc) : acc[i] = k THEN acc ELSE Append(acc, k))

\* the entries are in chronological order
SortedEntries ==
    \A i \in 1..(Len(entries) - 1) : NewDate(entries[i].date) <= NewDate(entries[i + 1].date)

\* the Monday of the week of a weekly result
WeekStartOf(w) ==
    RefMonday(NewDate(entries[CHOOSE i \in 1..Len(entries) :
                                 getISOWeek(NewDate(entries[i].date)) = w.week].date))

\* C13: the weekly results are ordered by the first occurrence of each week key in
\* the input entries; the k-th weekly result's cumulativeOvertime is the sum of
\* totalOvertime of the weekly results 1..k, hence non-decreasing along the list,
\* and the last one equals the period totalOvertime; when the entries are sorted
\* chronologically the weekly results are in chronological week order.
C13_WeeklyOrderAndCumulative ==
    Returned =>
        LET ws == result.weeklyResults
        IN  /\ [i \in 1..Len(ws) |-> ws[i].week] = KeysInOrder(entries, <<>>)
            /\ \A k \in 1..Len(ws) :
                  ws[k].cumulativeOvertime
                     = SeqSum([i \in 1..k |-> ws[i].overtime.totalOvertime])
            /\ \A k \in 1..(Len(ws) - 1) :
                  ws[k].cumulativeOvertime <= ws[k + 1].cumulativeOvertime
            /\ ws # <<>> => ws[Len(ws)].cumulativeOvertime = result.totalOvertime
            /\ SortedEntries =>
                  \A k \in 1..(Len(ws) - 1) : WeekStartOf(ws[k]) < WeekStartOf(ws[k + 1])

\* two weeks with overtime each, entered later week first, the earlier week's days
\* around a day of the later week: the results follow the input, the running total
\* adds up
C13_Witness ==
    /\ Returned
    /\ Len(entries) = 4
    /\ ~SortedEntries
    /\ Len(result.weeklyResults) = 2
    /\ WeekStartOf(result.weeklyResults[1]) > WeekStartOf(result.weeklyResults[2])
    /\ getISOWeek(NewDate(entries[1].date)) = getISOWeek(NewDate(entries[3].date))
    /\ getISOWeek(NewDate(entries[2].date)) = getISOWeek(NewDate(entries[4].date))
    /\ result.weeklyResults[1].overtime.totalOvertime > 0
    /\ result.weeklyResults[2].overtime.totalOvertime > 0
    /\ result.weeklyResults[2].cumulativeOvertime
          = result.weeklyResults[1].overtime.totalOvertime
               + result.weeklyResults[2].overtime.totalOvertime

\* C14 (as stated): easterDate(2024) is April 21, 2024.
C14_Easter2024IsApril21 ==
    (Done("getEasterDate") /\ call.year = 2024) =>
        CivilFromDays(call.ret) = [year |-> 2024, month |-> 4, day |-> 21]

\* C14: easterDate(2024) is March 31, 2024.
C14_Easter2024IsMarch31 ==
    (Done("getEasterDate") /\ call.year = 2024) =>
        CivilFromDays(call.ret) = [year |-> 2024, month |-> 3, day |-> 31]

\* getEasterDate(2024) has returned a Sunday in March
C14_Witness ==
    /\ Done("getEasterDate")
    /\ call.year = 2024
    /\ call.ret = DaysFromCivil(2024, 3, 31)
    /\ isSunday(call.ret)

\* Easter by the epact: the golden number G, the century corrections X and Z, the
\* epact E, the full moon on March N and the Sunday after it
RefEasterDay(year) ==
    LET G == (year % 19) + 1
        C == (year \div 100) + 1
        X == ((3 * C) \div 4) - 12
        Z == ((8 * C + 5) \div 25) - 5
        D == ((5 * year) \div 4) - X - 10
        E0 == (11 * G + 20 + Z - X) % 30
        E == IF (E0 = 25 /\ G > 11) \/ E0 = 24 THEN E0 + 1 ELSE E0
        N0 == 44 - E
        N1 == IF N0 < 21 THEN N0 + 30 ELSE N0
        N == N1 + 7 - ((D + N1) % 7)
    IN  IF N > 31 THEN DaysFromCivil(year, 4, N - 31) ELSE DaysFromCivil(year, 3, N)

\* C15: for every year of 1900..2100 getEasterDate returns a date of that year that
\* is a Sunday, lies between March 22 and April 25 inclusive, and is the Easter
\* Sunday of the Gregorian Computus.
C15_EasterIsComputusSunday ==
    Done("getEasterDate") =>
        /\ CivilFromDays(call.ret).year = call.year
        /\ RefMonday(call.ret) + 6 = call.ret
        /\ DaysFromCivil(call.year, 3, 22) <= call.ret
        /\ call.ret <= DaysFromCivil(call.year, 4, 25)
        /\ call.ret = RefEasterDay(call.year)

\* 2038: the latest possible Easter, April 25
C15_Witness ==
    /\ Done("getEasterDate")
    /\ call.year = 2038
    /\ CivilFromDays(call.ret) = [year |-> 2038, month |-> 4, day |-> 25]

\* the eight fixed holidays of a year
FixedHolidayDays(year) ==
    {DaysFromCivil(year, 1, 1), DaysFromCivil(year, 5, 1), DaysFromCivil(year, 5, 8),
     DaysFromCivil(year, 7, 14), DaysFromCivil(year, 8, 15), DaysFromCivil(year, 11, 1),
     DaysFromCivil(year, 11, 11), DaysFromCivil(year, 12, 25)}

\* the three holidays counted in calendar days from Easter Sunday
MovableHolidayDays(year) ==
    {RefEasterDay(year) + 1, RefEasterDay(year) + 39, RefEasterDay(year) + 50}

\* C16: for every year getPublicHolidays returns exactly 11 holidays, all dated in
\* that year: the 8 fixed dates 1 Jan, 1 May, 8 May, 14 Jul, 15 Aug, 1 Nov, 11 Nov
\* and 25 Dec, plus Easter Monday = Easter + 1 day, Ascension = Easter + 39 days and
\* Whit Monday = Easter + 50 days; Easter Monday and Whit Monday are Mondays and
\* Ascension is a Thursday.
C16_ElevenHolidays ==
    Done("getPublicHolidays") =>
        /\ Len(call.ret) = 11
        /\ \A i \in 1..11 : CivilFromDays(call.ret[i].date).year = call.year
        /\ {call.ret[i].date : i \in {1, 3, 4, 7, 8, 9, 10, 11}} = FixedHolidayDays(call.year)
        /\ Cardinality(FixedHolidayDays(call.year)) = 8
        /\ call.ret[2].date = RefEasterDay(call.year) + 1
        /\ call.ret[5].date = RefEasterDay(call.year) + 39
        /\ call.ret[6].date = RefEasterDay(call.year) + 50
        /\ RefMonday(call.ret[2].date) = call.ret[2].date
        /\ RefMonday(call.ret[5].date) + 3 = call.ret[5].date
        /\ RefMonday(call.ret[6].date) = call.ret[6].date

\* 2008: Easter on March 23, a week before the clocks go forward; Easter Monday
\* is March 24, Ascension falls on May 1, Whit Monday on May 12
C16_Witness ==
    /\ Done("getPublicHolidays")
    /\ call.year = 2008
    /\ call.ret[2].date = DaysFromCivil(2008, 3, 24)
    /\ call.ret[5].date = DaysFromCivil(2008, 5, 1)
    /\ call.ret[6].date = DaysFromCivil(2008, 5, 12)
    /\ call.ret[5].date = call.ret[3].date

\* the public holidays among the entry dates of May 2008
HolidayDates2008 ==
    {DateString(2008, 5, 1), DateString(2008, 5, 8), DateString(2008, 5, 12)}

\* C17: isPublicHoliday(date) returns a holiday if and only if the date's year, month
\* and day equal those of an entry of getPublicHolidays for the date's own year; it
\* returns one holiday, the first of the list, even when a movable and a fixed
\* holiday coincide; May 8 of any year returns Victoire 1945; the hours worked on a
\* holiday are added to holidayHours once.
C17_HolidayLookup ==
    /\ Done("isPublicHoliday") =>
          LET civil == CivilFromDays(call.date)
              own == getPublicHolidays(civil.year)
          IN  /\ (call.ret # Null)
                    <=> (call.date \in FixedHolidayDays(civil.year)
                                         \cup MovableHolidayDays(civil.year))
              /\ (call.ret # Null)
                    <=> (\E i \in 1..Len(own) : CivilFromDays(own[i].date) = civil)
              /\ call.ret # Null =>
                    /\ DOMAIN call.ret = {"date", "name"}
                    /\ call.ret.date = call.date
                    /\ \E i \in 1..Len(own) :
                          /\ own[i] = call.ret
                          /\ \A j \in 1..(i - 1) : own[j].date # call.date
              /\ (civil.month = 5 /\ civil.day = 8) =>
                    (call.ret # Null /\ call.ret.name = "Victoire 1945")
    /\ Returned =>
          /\ \A i \in 1..Len(result.dailyResults) :
                result.dailyResults[i].isHoliday
                   = (result.dailyResults[i].date \in HolidayDates2008)
          /\ result.totalHolidayHours
                = SumDays(result.dailyResults, LAMBDA d : d.date \in HolidayDates2008)
          /\ \A i \in 1..Len(result.weeklyResults) :
                LET w == result.weeklyResults[i]
                    holidayH == SumDays(result.dailyResults,
                                   LAMBDA d : /\ getISOWeek(NewDate(d.date)) = w.week
                                              /\ d.date \in HolidayDates2008)
                IN  /\ w.holidayHours = holidayH
                    /\ w.pay.holidayPremium = RoundMoney(holidayH * hourlyRate.num * 4)

\* a 24-hour day worked on 2008-05-01, Labour Day and Ascension at once: the day
\* carries the first holiday of the list and its hours count once as holiday hours
C17_Witness ==
    /\ Returned
    /\ Len(entries) = 1
    /\ entries[1].date = DateString(2008, 5, 1)
    /\ getPublicHolidays(2008)[3].date = getPublicHolidays(2008)[5].date
    /\ result.dailyResults[1].hoursWorked = H(24)
    /\ result.dailyResults[1].holidayName = "Fete du Travail"
    /\ result.weeklyResults[1].holidayHours = H(24)
    /\ result.totalHolidayHours = H(24)

(***************************************************************************)
(* Entries with unreadable fields                                          *)
(***************************************************************************)
\* an office day; a start that is no time ("abc"); an end without a colon ("17");
\* a break parseInt cannot read; a day left empty
MalformedShiftInputs ==
    { <<TimeString(9, 0), TimeString(17, 0), 60>>,
      <<<<"a", "b", "c">>, TimeString(17, 0), 0>>,
      <<TimeString(9, 0), <<"1", "7">>, 0>>,
      <<TimeString(9, 0), TimeString(17, 0), NaN>>,
      <<<<>>, <<>>, 0>> }

\* two days of one week and a day of the next
MalformedDateInputs ==
    {DateString(2022, 4, 25), DateString(2022, 4, 26), DateString(2022, 5, 2)}

MalformedEntryInputs ==
    {Entry(d, sh[1], sh[2], sh[3]) : d \in MalformedDateInputs, sh \in MalformedShiftInputs}

MalformedEntryLists == UNION {[1..n -> MalformedEntryInputs] : n \in 0..MaxEntries}

\* one invocation of processEntries on entries some of which cannot be read
InitMalformed ==
    /\ call = NoCall
    /\ pc = "running"
    /\ entries \in MalformedEntryLists
    /\ hourlyRate = Num(15000)
    /\ contractBase \in ProcBaseInputs
    /\ ProcLocalsInit
    /\ ModuleLoaded
    /\ Standalone

SpecMalformed == InitMalformed /\ [][Next]_vars

\* "HH:MM" or ""
WellFormedTime(s) ==
    \/ s = <<>>
    \/ /\ Len(s) = 5
       /\ s[3] = ":"
       /\ \A i \in {1, 2, 4, 5} : \E d \in 1..10 : Digits[d] = s[i]

\* C18: for any entry list, also with malformed time strings or a non-numeric break
\* and for the empty list, processEntries returns a complete result: a malformed
\* time counts as 0 (the entry adds no hours), a non-numeric break counts as 0,
\* every total is a number, dailyResults has one element per entry in input order,
\* and the empty list gives all-zero totals and empty daily and weekly lists.
C18_MalformedInputCountsAsZero ==
    Returned =>
        /\ Len(result.dailyResults) = Len(entries)
        /\ \A i \in 1..Len(entries) :
              LET e == entries[i]
                  d == result.dailyResults[i]
              IN  /\ d.date = e.date
                  /\ d.hoursWorked # NaN
                  /\ d.nightHours # NaN
                  /\ (~WellFormedTime(e.start) \/ ~WellFormedTime(e.end)) => d.hoursWorked = 0
                  /\ (e.breakDuration = NaN /\ WellFormedTime(e.start) /\ WellFormedTime(e.end)
                         /\ BothPresent(e))
                        => d.hoursWorked = minutesToHours(SpanMinutes(e))
        /\ result.totalHours # NaN
        /\ result.totalNightHours # NaN
        /\ result.totalSundayHours # NaN
        /\ result.totalHolidayHours # NaN
        /\ result.totalOvertime # NaN
        /\ result.totalHours = SumDays(result.dailyResults, LAMBDA d : TRUE)
        /\ \A i \in 1..Len(result.weeklyResults) :
              LET w == result.weeklyResults[i]
              IN  /\ w.totalHours # NaN
                  /\ w.overtime.totalOvertime # NaN
                  /\ w.cumulativeOvertime # NaN
                  /\ w.pay # Null => w.pay.totalPay # NaN
        /\ result.totalPay # Null => result.totalPay.total # NaN
        /\ entries = <<>> =>
              /\ result.dailyResults = <<>>
              /\ result.weeklyResults = <<>>
              /\ result.totalHours = 0
              /\ result.totalNightHours = 0
              /\ result.totalSundayHours = 0
              /\ result.totalHolidayHours = 0
              /\ result.totalOvertime = 0

(***************************************************************************)
(* Calls of the warning functions                                          *)
(***************************************************************************)
\* ends to the minute around the full hours, the breaks next to 20 minutes
WarnEndInputs == {TimeString(h, m) : h \in 0..23, m \in {0, 1, 18, 19, 20, 21, 30, 59}}

WarnEntryInputs ==
    {Entry(DateString(2022, 4, 25), s, e, b) :
        s \in {<<>>, TimeString(8, 0), TimeString(22, 0)},
        e \in WarnEndInputs \cup {<<>>},
        b \in {0, 19, 20, 60}}

\* the weekly totals, and the hundredths next to 44h and 48h
WarnWeeklyHoursInputs ==
    WeeklyHoursInputs \cup {H(44) - 1, H(44) + 1, H(48) - 1, H(48) + 1}

\* getDailyWarnings is handed the entry and its calculateDailyHours
PendingWarningCalls ==
    {[fn |-> "getDailyWarnings", done |-> FALSE, entry |-> e,
      hoursWorked |-> calculateDailyHours(e)] : e \in WarnEntryInputs}
    \cup
    {[fn |-> "getWeeklyWarnings", done |-> FALSE, weeklyHours |-> h] :
        h \in WarnWeeklyHoursInputs}

CallGetDailyWarnings ==
    /\ call.fn = "getDailyWarnings" /\ ~call.done
    /\ call' = [fn |-> call.fn, done |-> TRUE, entry |-> call.entry,
                hoursWorked |-> call.hoursWorked,
                ret |-> getDailyWarnings(call.entry, call.hoursWorked)]
    /\ UNCHANGED <<procVars, heap, restVars>>

CallGetWeeklyWarnings ==
    /\ call.fn = "getWeeklyWarnings" /\ ~call.done
    /\ call' = [fn |-> call.fn, done |-> TRUE, weeklyHours |-> call.weeklyHours,
                ret |-> getWeeklyWarnings(call.weeklyHours)]
    /\ UNCHANGED <<procVars, heap, restVars>>

\* one call of a warning function, or one invocation of processEntries
InitWarn ==
    \/ /\ call \in PendingWarningCalls
       /\ pc = "idle"
       /\ entries = <<>>
       /\ hourlyRate = Null
       /\ contractBase = 35
       /\ ProcLocalsInit
       /\ ModuleLoaded
       /\ Standalone
    \/ /\ call = NoCall
       /\ pc = "running"
       /\ entries \in ProcEntryLists \cup WeekEntryLists
       /\ hourlyRate = Num(15000)
       /\ contractBase = 35
       /\ ProcLocalsInit
       /\ ModuleLoaded
       /\ Standalone

NextWarn ==
    \/ CallGetDailyWarnings
    \/ CallGetWeeklyWarnings
    \/ DayStep
    \/ WeekStep
    \/ Return

SpecWarn == InitWarn /\ [][NextWarn]_vars

\* the minutes worked net of the break, counted from the entered times
NetMinutes(entry) == SpanMinutes(entry) - entry.breakDuration

HasType(warnings, type) == \E i \in 1..Len(warnings) : warnings[i].type = type

\* what the claim asks of the warnings of one entry
DailyWarningsAsClaimed(entry, warnings) ==
    /\ HasType(warnings, "error") <=> (BothPresent(entry) /\ NetMinutes(entry) > 600)
    /\ HasType(warnings, "warning")
          <=> (BothPresent(entry) /\ NetMinutes(entry) >= 360 /\ entry.breakDuration < 20)
    /\ ~BothPresent(entry) => warnings = <<>>
    /\ \A i \in 1..Len(warnings) : warnings[i].type \in {"error", "warning"}

\* C19: for every entry the daily warnings contain an 'error' warning if and only if
\* the day's worked hours net of the break exceed 10, and a 'warning' mandatory-break
\* warning if and only if the worked hours are >= 6 and the entered break is under
\* 20 minutes; a day with no hours entered gets no warning; warnings never remove
\* the day from the totals.
C19_DailyWarnings ==
    /\ Done("getDailyWarnings") => DailyWarningsAsClaimed(call.entry, call.ret)
    /\ Returned =>
          /\ Len(result.dailyResults) = Len(entries)
          /\ \A i \in 1..Len(entries) :
                /\ DailyWarningsAsClaimed(entries[i], result.dailyResults[i].warnings)
                /\ result.dailyResults[i].hoursWorked
                      = IF BothPresent(entries[i])
                        THEN Max(0, minutesToHours(NetMinutes(entries[i]))) ELSE 0
          /\ result.totalHours = SumDays(result.dailyResults, LAMBDA d : TRUE)
          /\ SeqSum([i \in 1..Len(result.weeklyResults) |->
                        result.weeklyResults[i].totalHours]) = result.totalHours

\* a 24-hour day without a break and an 18-hour day with a 30-minute break in one
\* period: the first carries the error and the break warning, the second the error
\* alone, and all 42 hours are in the totals
C19_Witness ==
    /\ Returned
    /\ Len(entries) = 2
    /\ result.dailyResults[1].hoursWorked = H(24)
    /\ HasType(result.dailyResults[1].warnings, "error")
    /\ HasType(result.dailyResults[1].warnings, "warning")
    /\ result.dailyResults[2].hoursWorked = H(18)
    /\ HasType(result.dailyResults[2].warnings, "error")
    /\ ~HasType(result.dailyResults[2].warnings, "warning")
    /\ result.totalHours = H(42)

\* C20 (as stated): the weekly warnings contain an 'error' warning whenever the
\* week's total hours exceed the 48h weekly maximum and a 'warning' advisory whenever
\* they exceed the 44h average ceiling; a week at or below 44h gets no warning.
C20_AdvisoryWheneverAbove44 ==
    Done("getWeeklyWarnings") =>
        /\ call.weeklyHours > H(48) => HasType(call.ret, "error")
        /\ call.weeklyHours > H(44) => HasType(call.ret, "warning")
        /\ call.weeklyHours <= H(44) => call.ret = <<>>

\* C20: the weekly warnings are exactly one 'error' warning when the week's total
\* hours exceed 48h, exactly one 'warning' advisory when they exceed 44h without
\* exceeding 48h, and empty at or below 44h; processEntries attaches them to the
\* week's result.
C20_ErrorOrAdvisory ==
    /\ Done("getWeeklyWarnings") =>
          /\ call.weeklyHours > H(48) =>
                (Len(call.ret) = 1 /\ call.ret[1].type = "error")
          /\ (call.weeklyHours > H(44) /\ call.weeklyHours <= H(48)) =>
                (Len(call.ret) = 1 /\ call.ret[1].type = "warning")
          /\ call.weeklyHours <= H(44) => call.ret = <<>>
    /\ Returned =>
          \A i \in 1..Len(result.weeklyResults) :
             LET w == result.weeklyResults[i]
             IN  /\ HasType(w.warnings, "error") <=> w.totalHours > H(48)
                 /\ HasType(w.warnings, "warning")
                       <=> (w.totalHours > H(44) /\ w.totalHours <= H(48))
                 /\ Len(w.warnings) <= 1

\* a week of 50 hours: the error alone, no advisory
C20_Witness ==
    /\ Done("getWeeklyWarnings")
    /\ call.weeklyHours = H(50)
    /\ Len(call.ret) = 1
    /\ call.ret[1].type = "error"
    /\ ~HasType(call.ret, "warning")

(***************************************************************************)
(* Several invocations of processEntries, with pure calls around them      *)
(***************************************************************************)
MaxInvocations == 2

\* the bindings a new invocation of processEntries starts with: its arguments and
\* the locals as their declarations initialise them
Activation_SharedWeekMap(args) ==
    [ entries |-> args.entries, hourlyRate |-> args.hourlyRate,
      contractBase |-> args.contractBase,
      dailyResults |-> <<>>, totalHours |-> 0, totalNightHours |-> 0,
      totalSundayHours |-> 0, totalHolidayHours |-> 0,
      weeklyHoursMap |-> weeklyHoursMap, weeklySundayMap |-> <<>>,
      weeklyHolidayMap |-> <<>>, weeklyResults |-> <<>>, cumulativeOvertime |-> 0,
      totalPay |-> Null ]

Activation(args) ==
    [ entries |-> args.entries, hourlyRate |-> args.hourlyRate,
      contractBase |-> args.contractBase,
      dailyResults |-> <<>>, totalHours |-> 0, totalNightHours |-> 0,
      totalSundayHours |-> 0, totalHolidayHours |-> 0,
      weeklyHoursMap |-> <<>>, weeklySundayMap |-> <<>>,
      weeklyHolidayMap |-> <<>>, weeklyResults |-> <<>>, cumulativeOvertime |-> 0,
      totalPay |-> Null ]

\* entry lists of the repeated invocations: two 24-hour days of one week, a
\* Sunday, a day in each of two weeks, and no entry
RepeatEntryLists ==
    { << Entry(DateString(2022, 4, 25), TimeString(0, 0), TimeString(0, 0), 0),
         Entry(DateString(2022, 4, 26), TimeString(0, 0), TimeString(0, 0), 0) >>,
      << Entry(DateString(2022, 5, 1), TimeString(9, 0), TimeString(17, 0), 30) >>,
      << Entry(DateString(2022, 4, 25), TimeString(22, 0), TimeString(6, 0), 0),
         Entry(DateString(2022, 5, 2), TimeString(8, 0), TimeString(12, 0), 0) >>,
      << >> }

RepeatArguments ==
    {[entries |-> es, hourlyRate |-> r, contractBase |-> b] :
        es \in RepeatEntryLists, r \in {Null, Num(15000)}, b \in {35, 39}}

\* the pure calls a caller makes before, between or after the invocations
RepeatCalls ==
    { [fn |-> "calculateOvertime", done |-> FALSE, weeklyHours |-> H(45), contractBase |-> 35],
      [fn |-> "calculatePay", done |-> FALSE, weeklyHours |-> H(40), hourlyRate |-> Num(15000),
       contractBase |-> 39, sundayHours |-> 0, holidayHours |-> 0] }

\* the caller invokes processEntries(entries, hourlyRate, contractBase); what the
\* invocation before it returned is kept by the caller
Invoke ==
    /\ pc \in {"idle", "done"}
    /\ call.done
    /\ Len(history) + (IF pc = "done" THEN 1 ELSE 0) < MaxInvocations
    /\ \E args \in RepeatArguments :
          LET a == Activation(args)
          IN  /\ entries' = a.entries
              /\ hourlyRate' = a.hourlyRate
              /\ contractBase' = a.contractBase
              /\ dailyResults' = a.dailyResults
              /\ totalHours' = a.totalHours
              /\ totalNightHours' = a.totalNightHours
              /\ totalSundayHours' = a.totalSundayHours
              /\ totalHolidayHours' = a.totalHolidayHours
              /\ weeklyHoursMap' = a.weeklyHoursMap
              /\ weeklySundayMap' = a.weeklySundayMap
              /\ weeklyHolidayMap' = a.weeklyHolidayMap
              /\ weeklyResults' = a.weeklyResults
              /\ cumulativeOvertime' = a.cumulativeOvertime
              /\ totalPay' = a.totalPay
    /\ result' = Null
    /\ pc' = "running"
    /\ history' = IF pc = "done"
                  THEN Append(history, [entries |-> entries, hourlyRate |-> hourlyRate,
                                        contractBase |-> contractBase, result |-> result])
                  ELSE history
    /\ UNCHANGED <<call, heap, serverVars, clientVars>>

\* the caller makes one pure call while no invocation is running
CallerIssues ==
    /\ pc \in {"idle", "done"}
    /\ call = NoCall
    /\ call' \in RepeatCalls
    /\ UNCHANGED <<procVars, heap, restVars>>

InitRepeat ==
    /\ call = NoCall
    /\ pc = "idle"
    /\ entries = <<>>
    /\ hourlyRate = Null
    /\ contractBase = 35
    /\ ProcLocalsInit
    /\ ModuleLoaded
    /\ Standalone

NextRepeat ==
    \/ Invoke
    \/ DayStep
    \/ WeekStep
    \/ Return
    \/ CallerIssues
    \/ CallCalculateOvertime
    \/ CallCalculatePay

SpecRepeat == InitRepeat /\ [][NextRepeat]_vars

\* the arguments of the invocation that is running or has just returned
CurrentArguments ==
    [entries |-> entries, hourlyRate |-> hourlyRate, contractBase |-> contractBase]

ArgumentsOf(h) ==
    [entries |-> h.entries, hourlyRate |-> h.hourlyRate, contractBase |-> h.contractBase]

\* C21: when an invocation of processEntries has returned, its result is equal
\* to the result of every earlier invocation that had the same entries, hourly
\* rate and contract base, whatever pure call was made before or between them.
C21_SameArgumentsSameResult ==
    pc = "done" =>
        \A i \in 1..Len(history) :
            ArgumentsOf(history[i]) = CurrentArguments => history[i].result = result

\* two invocations on the two 24-hour days at rate 15 returned the same 13 hours
\* of overtime, and calculateOvertime(45, 35) was called between them: its
\* result object lies in the heap after the first invocation's and before the
\* second's
C21_Witness ==
    /\ pc = "done"
    /\ Len(history) = 1
    /\ ArgumentsOf(history[1]) = CurrentArguments
    /\ hourlyRate = Num(15000)
    /\ contractBase = 35
    /\ result.totalOvertime = H(13)
    /\ history[1].result = result
    /\ call.fn = "calculateOvertime" /\ call.done
    /\ Len(heap) = 14
    /\ heap[8] = ArrayOf(call.ret.brackets)

(***************************************************************************)
(* server.js: the Express application and its SQLite database.             *)
(* Request strings are strings; a JSON property or query parameter that is *)
(* absent is the string undefined, or NoNumber where a number is expected. *)
(* Dates 'YYYY-MM-DD' are numbered days (the text order of the strings is  *)
(* the order of the days); NoDate is a date that is absent.                *)
(* A session is named after the browser that holds its cookie; a browser   *)
(* that never logged in has no session in the store.                       *)
(* Row ids of entries and the created_at / updated_at columns are left out.*)
(***************************************************************************)
MaxEmployees == 2

undefined == "undefined"

NoNumber == -1

NoDate == 0

\* the decimal text of the ids that requests name
IdText == <<"1", "2", "3">>

\* the integer SQLite reads in the text of :id (INTEGER affinity); 0, the id of no
\* row, for any other text
IntegerOf(text) ==
    IF \E i \in 1..Len(IdText) : IdText[i] = text
    THEN CHOOSE i \in 1..Len(IdText) : IdText[i] = text
    ELSE 0

\* String.prototype.trim on the names of the model
trim(name) ==
    CASE name = " " -> ""
      [] name = " Ana" -> "Ana"
      [] OTHER -> name

\* the names of the model in the order of SQLite's text comparison
NameOrder == <<"", "Ana", "Bob">>

NameRank(name) == CHOOSE i \in 1..Len(NameOrder) : NameOrder[i] = name

\* the elements of S as the sequence that Before orders
SortedSeq(S, Before(_, _)) ==
    CHOOSE q \in [1..Cardinality(S) -> S] :
        /\ \A x \in S : \E i \in 1..Cardinality(S) : q[i] = x
        /\ \A i, j \in 1..Cardinality(S) : i < j => Before(q[i], q[j])

Req(session, method, path, query, body) ==
    [session |-> session, method |-> method, path |-> path, query |-> query, body |-> body]

NoQuery == [start |-> NoDate, end |-> NoDate]

NoBody == [none |-> TRUE]

\* the files of public/css and public/js
AssetFiles == {<<"js", "app.js">>, <<"js", "french-rules.js">>, <<"css", "style.css">>}

\* the other files of public, "/" being index.html
PublicFiles == {<<>>, <<"index.html">>, <<"login.html">>}

\* req.path.startsWith('/api/')
StartsWithApi(path) == Len(path) >= 2 /\ path[1] = "api"

\* the route registered before app.use(requireAuth) that answers the request
PublicHandler(req) ==
    IF req.method = "GET" /\ req.path \in AssetFiles THEN "static assets"
    ELSE IF req.method = "GET" /\ req.path = <<"login">> THEN "GET /login"
    ELSE IF req.method = "POST" /\ req.path = <<"api", "auth", "login">>
         THEN "POST /api/auth/login"
    ELSE IF req.method = "POST" /\ req.path = <<"api", "auth", "logout">>
         THEN "POST /api/auth/logout"
    ELSE IF req.method = "GET" /\ req.path = <<"api", "auth", "status">>
         THEN "GET /api/auth/status"
    ELSE "none"

requireAuth_PagesPass(req) ==
    IF authPassword = "" THEN "next"
    ELSE IF req.session \in sessions THEN "next"
    ELSE IF StartsWithApi(req.path) THEN "401"
    ELSE "next"

requireAuth(req) ==
    IF authPassword = "" THEN "next"
    ELSE IF req.session \in sessions THEN "next"
    ELSE IF StartsWithApi(req.path) THEN "401"
    ELSE "redirect"

\* the route registered after app.use(requireAuth) that answers the request
ProtectedHandler(req) ==
    IF req.method = "GET" /\ req.path \in PublicFiles THEN "static public"
    ELSE IF req.method = "GET" /\ req.path = <<"api", "employees">> THEN "GET /api/employees"
    ELSE IF req.method = "POST" /\ req.path = <<"api", "employees">> THEN "POST /api/employees"
    ELSE IF /\ req.method = "PUT" /\ Len(req.path) = 3
            /\ req.path[1] = "api" /\ req.path[2] = "employees"
         THEN "PUT /api/employees/:id"
    ELSE IF /\ req.method = "DELETE" /\ Len(req.path) = 3
            /\ req.path[1] = "api" /\ req.path[2] = "employees"
         THEN "DELETE /api/employees/:id"
    ELSE IF /\ req.method = "GET" /\ Len(req.path) = 4
            /\ req.path[1] = "api" /\ req.path[2] = "employees" /\ req.path[4] = "entries"
         THEN "GET /api/employees/:id/entries"
    ELSE IF /\ req.method = "PUT" /\ Len(req.path) = 4
            /\ req.path[1] = "api" /\ req.path[2] = "employees" /\ req.path[4] = "entries"
         THEN "PUT /api/employees/:id/entries"
    ELSE IF req.method = "GET" /\ req.path = <<"api", "entries", "all">>
         THEN "GET /api/entries/all"
    ELSE IF req.method = "GET" /\ req.path = <<"api", "settings">> THEN "GET /api/settings"
    ELSE IF req.method = "PUT" /\ req.path = <<"api", "settings">> THEN "PUT /api/settings"
    ELSE IF req.method = "GET" /\ req.path = <<"health">> THEN "GET /health"
    ELSE IF req.method = "GET" THEN "GET *"
    ELSE "none"

\* what answers the request: the middleware and routes in the order of their
\* registration
Handler(req) ==
    IF PublicHandler(req) # "none" THEN PublicHandler(req)
    ELSE IF requireAuth(req) # "next" THEN "requireAuth"
    ELSE ProtectedHandler(req)

Respond(req, status, body) ==
    [handler |-> Handler(req), req |-> req, status |-> status, body |-> body]

databaseVars == <<employees, lastEmployeeId, dbEntries, settings>>

\* stmts.getEmployee.get(id): the set of the rows found (none or one)
getEmployee(id) == {e \in employees : e.id = id}

\* stmts.getEmployeeByName.get(name)
getEmployeeByName(name) == {e \in employees : e.name = name}

\* stmts.listEmployees.all()
listEmployees ==
    SortedSeq({[id |-> e.id, name |-> e.name,
                gross_monthly_salary |-> e.gross_monthly_salary,
                contract_base |-> e.contract_base,
                entry_count |-> Cardinality({n \in dbEntries : n.employee_id = e.id})] :
                  e \in employees},
              LAMBDA a, b : NameRank(a.name) < NameRank(b.name))

\* stmts.getEntries.all(id, start, end)
getEntries(id, start, end) ==
    SortedSeq({n \in dbEntries : n.employee_id = id /\ n.date >= start /\ n.date <= end},
              LAMBDA a, b : a.date < b.date)

\* stmts.getAllEntries.all(start, end)
getAllEntries(start, end) ==
    SortedSeq({[employee_id |-> p[1].employee_id, date |-> p[1].date, start |-> p[1].start,
                end |-> p[1].end, break_duration |-> p[1].break_duration,
                employee_name |-> p[2].name,
                gross_monthly_salary |-> p[2].gross_monthly_salary,
                contract_base |-> p[2].contract_base] :
                  p \in {q \in dbEntries \X employees :
                            /\ q[2].id = q[1].employee_id
                            /\ q[1].date >= start /\ q[1].date <= end}},
              LAMBDA a, b : a.date < b.date
                            \/ (a.date = b.date
                                /\ NameRank(a.employee_name) < NameRank(b.employee_name)))

\* name ?? existing.name, for strings and for numbers
OrString(value, other) == IF value = undefined THEN other ELSE value

OrNumber(value, other) == IF value = NoNumber THEN other ELSE value

\* entry.start || '' and entry.breakDuration || entry.break_duration || 0
OrEmpty(value) == IF value = undefined THEN "" ELSE value

OrZero(value) == IF value = NoNumber THEN 0 ELSE value

\* stmts.upsertEntry.run(id, date, start, end, break_duration) on the rows
upsertEntry_InsertOnly(rows, id, entry) ==
    rows \cup
    {[employee_id |-> id, date |-> entry.date, start |-> OrEmpty(entry.start),
      end |-> OrEmpty(entry.end),
      break_duration |-> IF OrZero(entry.breakDuration) # 0 THEN entry.breakDuration
                         ELSE OrZero(entry.break_duration)]}

upsertEntry(rows, id, entry) ==
    {n \in rows : ~(n.employee_id = id /\ n.date = entry.date)} \cup
    {[employee_id |-> id, date |-> entry.date, start |-> OrEmpty(entry.start),
      end |-> OrEmpty(entry.end),
      break_duration |-> IF OrZero(entry.breakDuration) # 0 THEN entry.breakDuration
                         ELSE OrZero(entry.break_duration)]}

\* the statement throws for an entry without date (nothing to bind, NOT NULL)
upsertFails(entry) == entry.date = NoDate

\* the loop of upsertMany over the items from position i on: the rows it leaves
\* and whether a statement has thrown
RECURSIVE upsertLoop(_, _, _, _)
upsertLoop(rows, id, items, i) ==
    IF i > Len(items) THEN [rows |-> rows, thrown |-> FALSE]
    ELSE IF upsertFails(items[i]) THEN [rows |-> rows, thrown |-> TRUE]
    ELSE upsertLoop(upsertEntry(rows, id, items[i]), id, items, i + 1)

\* db.transaction(...): the rows after the loop, or the rows as they were before
\* it when a statement has thrown (rollback)
upsertMany(rows, id, items) ==
    IF upsertLoop(rows, id, items, 1).thrown THEN [rows |-> rows, thrown |-> TRUE]
    ELSE upsertLoop(rows, id, items, 1)

\* DELETE FROM employees WHERE id = ? on the rows of entries: with foreign_keys = ON
\* the rows that refer to the employee go (ON DELETE CASCADE)
onDeleteCascade_Off(rows, id) == rows

onDeleteCascade(rows, id) == {n \in rows : n.employee_id # id}

\* JSON.stringify and JSON.parse on the values of settings
JSONstringify(value) == <<"json", value>>

JSONparse(text) == text[2]

(***************************************************************************)
(* server.js: one action per route; req is the request being answered      *)
(***************************************************************************)
\* the response travels back to the fetch of the page that sent the request, if a
\* page sent it; nothing else of the page or of the engine changes
Reply(req) ==
    /\ fetches' = {IF f.req = req /\ f.stage = "sent"
                   THEN [f EXCEPT !.stage = "answered", !.response = exchange']
                   ELSE f : f \in fetches}
    /\ UNCHANGED <<call, procVars, heap, history, state, autoSaveTimer, entriesOwner>>

\* express.static on /css and /js
StaticAssets(req) ==
    /\ Handler(req) = "static assets"
    /\ exchange' = Respond(req, 200, [file |-> req.path])
    /\ UNCHANGED <<authPassword, sessions, databaseVars>>
    /\ Reply(req)

GetLogin(req) ==
    /\ Handler(req) = "GET /login"
    /\ exchange' = IF authPassword = "" \/ req.session \in sessions
                   THEN Respond(req, 302, [location |-> "/"])
                   ELSE Respond(req, 200, [file |-> <<"login.html">>])
    /\ UNCHANGED <<authPassword, sessions, databaseVars>>
    /\ Reply(req)

PostAuthLogin(req) ==
    /\ Handler(req) = "POST /api/auth/login"
    /\ IF authPassword = ""
       THEN /\ exchange' = Respond(req, 200, [success |-> TRUE])
            /\ UNCHANGED sessions
       ELSE IF req.body.password = authPassword
       THEN /\ sessions' = sessions \cup {req.session}
            /\ exchange' = Respond(req, 200, [success |-> TRUE])
       ELSE /\ exchange' = Respond(req, 401, [error |-> "Mot de passe incorrect"])
            /\ UNCHANGED sessions
    /\ UNCHANGED <<authPassword, databaseVars>>
    /\ Reply(req)

PostAuthLogout(req) ==
    /\ Handler(req) = "POST /api/auth/logout"
    /\ sessions' = sessions \ {req.session}
    /\ exchange' = Respond(req, 200, [success |-> TRUE])
    /\ UNCHANGED <<authPassword, databaseVars>>
    /\ Reply(req)

GetAuthStatus(req) ==
    /\ Handler(req) = "GET /api/auth/status"
    /\ exchange' = Respond(req, 200,
                           [authEnabled |-> authPassword # "",
                            authenticated |-> authPassword = "" \/ req.session \in sessions])
    /\ UNCHANGED <<authPassword, sessions, databaseVars>>
    /\ Reply(req)

\* requireAuth ends the request
RequireAuthRefuses(req) ==
    /\ Handler(req) = "requireAuth"
    /\ exchange' = IF requireAuth(req) = "401"
                   THEN Respond(req, 401, [error |-> "Non authentifie"])
                   ELSE Respond(req, 302, [location |-> "/login"])
    /\ UNCHANGED <<authPassword, sessions, databaseVars>>
    /\ Reply(req)

\* express.static on public
StaticPublic(req) ==
    /\ Handler(req) = "static public"
    /\ exchange' = Respond(req, 200,
                           [file |-> IF req.path = <<>> THEN <<"index.html">> ELSE req.path])
    /\ UNCHANGED <<authPassword, sessions, databaseVars>>
    /\ Reply(req)

GetEmployees(req) ==
    /\ Handler(req) = "GET /api/employees"
    /\ exchange' = Respond(req, 200, listEmployees)
    /\ UNCHANGED <<authPassword, sessions, databaseVars>>
    /\ Reply(req)

PostEmployees(req) ==
    /\ Handler(req) = "POST /api/employees"
    /\ LET name == req.body.name
           gross_monthly_salary == OrNumber(req.body.gross_monthly_salary, 0)
           contract_base == OrNumber(req.body.contract_base, 35)
       IN  IF name = undefined \/ name = "" \/ trim(name) = ""
           THEN /\ exchange' = Respond(req, 400, [error |-> "Le nom est requis"])
                /\ UNCHANGED <<employees, lastEmployeeId>>
           ELSE IF getEmployeeByName(trim(name)) # {}
           THEN /\ exchange' = Respond(req, 409,
                                       [error |-> "Un employe avec ce nom existe deja",
                                        employee |-> getEmployeeByName(trim(name))])
                /\ UNCHANGED <<employees, lastEmployeeId>>
           ELSE /\ lastEmployeeId < MaxEmployees
                /\ LET employee == [id |-> lastEmployeeId + 1, name |-> trim(name),
                                    gross_monthly_salary |-> gross_monthly_salary,
                                    contract_base |-> contract_base]
                   IN  /\ employees' = employees \cup {employee}
                       /\ lastEmployeeId' = lastEmployeeId + 1
                       /\ exchange' = Respond(req, 201, employee)
    /\ UNCHANGED <<authPassword, sessions, dbEntries, settings>>
    /\ Reply(req)

PutEmployee(req) ==
    /\ Handler(req) = "PUT /api/employees/:id"
    /\ LET id == IntegerOf(req.path[3])
           existing == getEmployee(id)
       IN  IF existing = {}
           THEN /\ exchange' = Respond(req, 404, [error |-> "Employe non trouve"])
                /\ UNCHANGED employees
           ELSE LET old == CHOOSE e \in existing : TRUE
                    employee == [id |-> id,
                                 name |-> OrString(req.body.name, old.name),
                                 gross_monthly_salary |->
                                     OrNumber(req.body.gross_monthly_salary,
                                              old.gross_monthly_salary),
                                 contract_base |->
                                     OrNumber(req.body.contract_base, old.contract_base)]
                IN  IF \E e \in employees : e.id # id /\ e.name = employee.name
                    THEN \* UNIQUE constraint failed: employees.name
                         /\ exchange' = Respond(req, 500, [error |-> "UNIQUE constraint failed"])
                         /\ UNCHANGED employees
                    ELSE /\ employees' = (employees \ existing) \cup {employee}
                         /\ exchange' = Respond(req, 200, employee)
    /\ UNCHANGED <<authPassword, sessions, lastEmployeeId, dbEntries, settings>>
    /\ Reply(req)

DeleteEmployee(req) ==
    /\ Handler(req) = "DELETE /api/employees/:id"
    /\ LET id == IntegerOf(req.path[3])
           existing == getEmployee(id)
       IN  IF existing = {}
           THEN /\ exchange' = Respond(req, 404, [error |-> "Employe non trouve"])
                /\ UNCHANGED <<employees, dbEntries>>
           ELSE /\ employees' = employees \ existing
                /\ dbEntries' = onDeleteCascade(dbEntries, id)
                /\ exchange' = Respond(req, 200,
                                       [success |-> TRUE,
                                        deleted |-> (CHOOSE e \in existing : TRUE).name])
    /\ UNCHANGED <<authPassword, sessions, lastEmployeeId, settings>>
    /\ Reply(req)

GetEntries(req) ==
    /\ Handler(req) = "GET /api/employees/:id/entries"
    /\ exchange' = IF req.query.start = NoDate \/ req.query.end = NoDate
                   THEN Respond(req, 400, [error |-> "start et end sont requis"])
                   ELSE Respond(req, 200,
                                getEntries(IntegerOf(req.path[3]), req.query.start,
                                           req.query.end))
    /\ UNCHANGED <<authPassword, sessions, databaseVars>>
    /\ Reply(req)

PutEntries(req) ==
    /\ Handler(req) = "PUT /api/employees/:id/entries"
    /\ LET id == IntegerOf(req.path[3])
       IN  IF ~req.body.isArray
           THEN /\ exchange' = Respond(req, 400, [error |-> "entries doit etre un tableau"])
                /\ UNCHANGED dbEntries
           ELSE IF getEmployee(id) = {}
           THEN /\ exchange' = Respond(req, 404, [error |-> "Employe non trouve"])
                /\ UNCHANGED dbEntries
           ELSE LET done == upsertMany(dbEntries, id, req.body.entries)
                IN  /\ dbEntries' = done.rows
                    /\ exchange' = IF done.thrown
                                   THEN Respond(req, 500, [error |-> "statement failed"])
                                   ELSE Respond(req, 200,
                                                [success |-> TRUE,
                                                 count |-> Len(req.body.entries)])
    /\ UNCHANGED <<authPassword, sessions, employees, lastEmployeeId, settings>>
    /\ Reply(req)

GetAllEntries(req) ==
    /\ Handler(req) = "GET /api/entries/all"
    /\ exchange' = IF req.query.start = NoDate \/ req.query.end = NoDate
                   THEN Respond(req, 400, [error |-> "start et end sont requis"])
                   ELSE Respond(req, 200, getAllEntries(req.query.start, req.query.end))
    /\ UNCHANGED <<authPassword, sessions, databaseVars>>
    /\ Reply(req)

GetSettings(req) ==
    /\ Handler(req) = "GET /api/settings"
    /\ exchange' = Respond(req, 200, {[key |-> r.key, value |-> JSONparse(r.value)] :
                                         r \in settings})
    /\ UNCHANGED <<authPassword, sessions, databaseVars>>
    /\ Reply(req)

PutSettings(req) ==
    /\ Handler(req) = "PUT /api/settings"
    /\ settings' = {r \in settings : \A u \in req.body.updates : u.key # r.key} \cup
                   {[key |-> u.key, value |-> JSONstringify(u.value)] : u \in req.body.updates}
    /\ exchange' = Respond(req, 200, [success |-> TRUE])
    /\ UNCHANGED <<authPassword, sessions, employees, lastEmployeeId, dbEntries>>
    /\ Reply(req)

GetHealth(req) ==
    /\ Handler(req) = "GET /health"
    /\ exchange' = Respond(req, 200, [status |-> "ok"])
    /\ UNCHANGED <<authPassword, sessions, databaseVars>>
    /\ Reply(req)

\* app.get('*'): the page of the application
SpaFallback(req) ==
    /\ Handler(req) = "GET *"
    /\ exchange' = Respond(req, 200, [file |-> <<"index.html">>])
    /\ UNCHANGED <<authPassword, sessions, databaseVars>>
    /\ Reply(req)

\* no route answers: Express answers 404
NotFound(req) ==
    /\ Handler(req) = "none"
    /\ exchange' = Respond(req, 404, [error |-> "Cannot " ])
    /\ UNCHANGED <<authPassword, sessions, databaseVars>>
    /\ Reply(req)

\* the server answers one request
Serve(req) ==
    \/ StaticAssets(req)
    \/ GetLogin(req)
    \/ PostAuthLogin(req)
    \/ PostAuthLogout(req)
    \/ GetAuthStatus(req)
    \/ RequireAuthRefuses(req)
    \/ StaticPublic(req)
    \/ GetEmployees(req)
    \/ PostEmployees(req)
    \/ PutEmployee(req)
    \/ DeleteEmployee(req)
    \/ GetEntries(req)
    \/ PutEntries(req)
    \/ GetAllEntries(req)
    \/ GetSettings(req)
    \/ PutSettings(req)
    \/ GetHealth(req)
    \/ SpaFallback(req)
    \/ NotFound(req)

(***************************************************************************)
(* The server answering requests of two browsers, with and without         *)
(* AUTH_PASSWORD                                                           *)
(***************************************************************************)
\* the engine before any call
EngineIdle ==
    /\ call = NoCall
    /\ pc = "idle"
    /\ entries = <<>>
    /\ hourlyRate = Null
    /\ contractBase = 35
    /\ ProcLocalsInit
    /\ ModuleLoaded

Browsers == {"b1", "b2"}

NoEmployeeFields == [name |-> undefined, gross_monthly_salary |-> NoNumber,
                     contract_base |-> NoNumber]

\* an item of the entries array of a save request
Item(date, start, end, breakDuration) ==
    [date |-> date, start |-> start, end |-> end, breakDuration |-> breakDuration,
     break_duration |-> NoNumber]

AuthRequests ==
    {Req(b, r[1], r[2], r[3], r[4]) : b \in Browsers, r \in
       { <<"GET", <<"js", "app.js">>, NoQuery, NoBody>>,
         <<"GET", <<"login">>, NoQuery, NoBody>>,
         <<"POST", <<"api", "auth", "login">>, NoQuery, [password |-> "horametre"]>>,
         <<"POST", <<"api", "auth", "login">>, NoQuery, [password |-> "wrong"]>>,
         <<"POST", <<"api", "auth", "login">>, NoQuery, [password |-> undefined]>>,
         <<"POST", <<"api", "auth", "logout">>, NoQuery, NoBody>>,
         <<"GET", <<"api", "auth", "status">>, NoQuery, NoBody>>,
         <<"GET", <<>>, NoQuery, NoBody>>,
         <<"GET", <<"api", "employees">>, NoQuery, NoBody>>,
         <<"POST", <<"api", "employees">>, NoQuery, [NoEmployeeFields EXCEPT !.name = "Ana"]>>,
         <<"PUT", <<"api", "employees", "1">>, NoQuery,
           [NoEmployeeFields EXCEPT !.contract_base = 39]>>,
         <<"DELETE", <<"api", "employees", "1">>, NoQuery, NoBody>>,
         <<"GET", <<"api", "employees", "1", "entries">>, [start |-> 1, end |-> 2], NoBody>>,
         <<"PUT", <<"api", "employees", "1", "entries">>, NoQuery,
           [isArray |-> TRUE, entries |-> <<Item(1, "09:00", "17:00", 30)>>]>>,
         <<"GET", <<"api", "entries", "all">>, [start |-> 1, end |-> 2], NoBody>>,
         <<"GET", <<"api", "settings">>, NoQuery, NoBody>>,
         <<"PUT", <<"api", "settings">>, NoQuery,
           [updates |-> {[key |-> "theme", value |-> "light"]}]>>,
         <<"GET", <<"health">>, NoQuery, NoBody>>,
         <<"GET", <<"planning">>, NoQuery, NoBody>>,
         <<"DELETE", <<"api", "settings">>, NoQuery, NoBody>> }}

\* the server has started on an empty database
InitAuth ==
    /\ EngineIdle
    /\ PageLoaded
    /\ authPassword \in {"", "horametre"}
    /\ sessions = {}
    /\ employees = {}
    /\ lastEmployeeId = 0
    /\ dbEntries = {}
    /\ settings = {}
    /\ exchange = NoExchange

NextAuth == \E req \in AuthRequests : Serve(req)

SpecAuth == InitAuth /\ [][NextAuth]_vars

\* the handlers of the employee, entry and settings routes and of the protected pages
ProtectedHandlers ==
    {"static public", "GET /api/employees", "POST /api/employees", "PUT /api/employees/:id",
     "DELETE /api/employees/:id", "GET /api/employees/:id/entries",
     "PUT /api/employees/:id/entries", "GET /api/entries/all", "GET /api/settings",
     "PUT /api/settings", "GET *"}

\* the request answered in this step came before requireAuth from a session
\* that was not authenticated, while a password is set
UnauthenticatedStep ==
    /\ exchange' # exchange
    /\ authPassword # ""
    /\ exchange'.req.session \notin sessions
    /\ PublicHandler(exchange'.req) = "none"

\* C22: with a password set, a request that reaches requireAuth from a session
\* that is not authenticated is answered by requireAuth (401 on /api/ paths,
\* redirect to /login elsewhere), by no protected handler, and changes nothing
\* in the database; a session becomes authenticated only in a login step with
\* exactly the configured password; a login with any other password is
\* answered 401 and leaves the sessions as they were; after a logout the
\* session is not authenticated; without password requireAuth refuses nothing.
C22_Step ==
    /\ UnauthenticatedStep =>
          /\ exchange'.handler = "requireAuth"
          /\ exchange'.handler \notin ProtectedHandlers
          /\ IF StartsWithApi(exchange'.req.path)
             THEN exchange'.status = 401
             ELSE exchange'.status = 302 /\ exchange'.body = [location |-> "/login"]
          /\ UNCHANGED databaseVars
    /\ \A b \in Browsers :
          b \notin sessions /\ b \in sessions' =>
              /\ exchange'.handler = "POST /api/auth/login"
              /\ exchange'.req.session = b
              /\ exchange'.req.body.password = authPassword
              /\ exchange'.status = 200
    /\ (/\ exchange' # exchange
        /\ exchange'.handler = "POST /api/auth/login"
        /\ authPassword # ""
        /\ exchange'.req.body.password # authPassword) =>
              exchange'.status = 401 /\ sessions' = sessions
    /\ (exchange' # exchange /\ exchange'.handler = "POST /api/auth/logout") =>
              exchange'.req.session \notin sessions'
    /\ authPassword = "" => exchange'.handler # "requireAuth"

C22_AuthenticationGate == [][C22_Step]_vars

\* with the password set, browser b1 is logged in and browser b2, which is not,
\* has just been refused the employee list with 401
C22_Witness ==
    /\ authPassword = "horametre"
    /\ sessions = {"b1"}
    /\ employees # {}
    /\ exchange.handler = "requireAuth"
    /\ exchange.req.session = "b2"
    /\ exchange.req.path = <<"api", "employees">>
    /\ exchange.status = 401

\* C23: every GET /health is answered 200 with status 'ok', whether or not a
\* password is set and whether or not the session is authenticated.
C23_HealthWithoutAuthentication ==
    (/\ exchange.handler # "none"
     /\ exchange.req.method = "GET"
     /\ exchange.req.path = <<"health">>) =>
         exchange.status = 200 /\ exchange.handler = "GET /health"

(***************************************************************************)
(* C24: what the engine functions write                                    *)
(***************************************************************************)
\* the objects of one kind in the heap
RefsOfKind(kind) == {r \in 1..Len(heap) : heap[r].kind = kind}

\* the overtime result that object r of the heap stands for
OvertimeAt(r) == [heap[r].fields EXCEPT !.brackets = heap[@].items]

\* CONFIG is as the module created it; the brackets array of every overtime
\* result is an array of its own, neither the table of CONFIG nor the array of
\* another result; the breakdown of every pay object is an overtime result of its
\* own; the overtime result a call returned is the one the heap holds last
C24_State ==
    /\ heap[ConfigBracketsRef] = ModuleHeap[ConfigBracketsRef]
    /\ heap[ConfigRef] = ModuleHeap[ConfigRef]
    /\ \A r \in RefsOfKind("overtime") :
          /\ heap[r].fields.brackets # ConfigBracketsRef
          /\ heap[heap[r].fields.brackets].kind = "array"
          /\ \A q \in RefsOfKind("overtime") :
                q # r => heap[q].fields.brackets # heap[r].fields.brackets
    /\ \A r \in RefsOfKind("pay") :
          /\ heap[r].fields.breakdown \in RefsOfKind("overtime")
          /\ \A q \in RefsOfKind("pay") :
                q # r => heap[q].fields.breakdown # heap[r].fields.breakdown
    /\ (call.fn = "calculateOvertime" /\ call.done) =>
          \E r \in RefsOfKind("overtime") : OvertimeAt(r) = call.ret

\* a step only adds objects to the heap, and a step of a running processEntries
\* leaves its arguments as the caller passed them
C24_Step ==
    /\ Len(heap') >= Len(heap)
    /\ \A r \in 1..Len(heap) : heap'[r] = heap[r]
    /\ pc = "running" =>
          entries' = entries /\ hourlyRate' = hourlyRate /\ contractBase' = contractBase

\* C24: processEntries, calculateOvertime and calculatePay leave the entries and
\* CONFIG unchanged and build their results from new objects: no object that
\* existed before a step is changed by it, and no result shares its arrays or
\* objects with CONFIG or with another result.
C24_NoSharedState == []C24_State /\ [][C24_Step]_vars

\* two invocations on the two 24-hour days at rate 15 and a calculateOvertime call
\* between them have left five overtime results with brackets in the heap, each
\* with its own array, and CONFIG as it was
C24_Witness ==
    /\ pc = "done"
    /\ Len(history) = 1
    /\ result.totalOvertime = H(13)
    /\ history[1].result.totalOvertime = H(13)
    /\ call.fn = "calculateOvertime" /\ call.done
    /\ Cardinality({r \in RefsOfKind("overtime") : heap[heap[r].fields.brackets].items # <<>>}) = 5
    /\ Cardinality({heap[r].fields.brackets : r \in RefsOfKind("overtime")}) = 5
    /\ CONFIG.overtimeBrackets = ModuleHeap[ConfigBracketsRef].items

(***************************************************************************)
(* C25: conservation of hours                                              *)
(***************************************************************************)
\* the sum of field f over the weekly results
SumWeeks(weeks, f) == SeqSum([i \in 1..Len(weeks) |-> weeks[i][f]])

\* the sum of the hours of the brackets of an overtime breakdown
BracketHours(overtime) ==
    SeqSum([i \in 1..Len(overtime.brackets) |-> overtime.brackets[i].hours])

\* regularHours + structuralHours + bracket hours make up the hours, and the
\* bracket hours are the overtime
Conserves(overtime, hours) ==
    /\ overtime.regularHours + overtime.structuralHours + BracketHours(overtime) = hours
    /\ BracketHours(overtime) = overtime.totalOvertime

\* C25: in the result of processEntries every day's week key is the key of exactly
\* one weekly result, whose totalHours is the sum of the hours of its days; the
\* period totalHours is the sum of the daily hoursWorked and the sum of the weekly
\* totalHours; totalSundayHours and totalHolidayHours are the sums of the weekly
\* sundayHours and holidayHours; every overtime breakdown (of the week and of its
\* pay) splits the week's hours into regular, structural and bracket hours, the
\* bracket hours adding up to totalOvertime.
C25_HoursConserved ==
    Returned =>
        LET days == result.dailyResults
            weeks == result.weeklyResults
        IN  /\ \A d \in 1..Len(days) :
                  Cardinality({i \in 1..Len(weeks) :
                                  weeks[i].week = getISOWeek(NewDate(days[d].date))}) = 1
            /\ \A i \in 1..Len(weeks) :
                  /\ weeks[i].totalHours
                        = SumDays(days, LAMBDA d : getISOWeek(NewDate(d.date)) = weeks[i].week)
                  /\ Conserves(weeks[i].overtime, weeks[i].totalHours)
                  /\ weeks[i].pay # Null =>
                        Conserves(weeks[i].pay.breakdown, weeks[i].totalHours)
            /\ result.totalHours = SumDays(days, LAMBDA d : TRUE)
            /\ result.totalHours = SumWeeks(weeks, "totalHours")
            /\ result.totalSundayHours = SumWeeks(weeks, "sundayHours")
            /\ result.totalHolidayHours = SumWeeks(weeks, "holidayHours")

\* a 24-hour Sunday in one week and a 24-hour Sunday that is Labour Day in the
\* next, at base 39 with a rate: two buckets of 24 hours, 48 hours in total, all
\* of them Sunday hours and 24 of them holiday hours
C25_Witness ==
    /\ Returned
    /\ RatePositive
    /\ contractBase = 39
    /\ Len(entries) = 2
    /\ entries[1].date = DateString(2022, 4, 24)
    /\ entries[2].date = DateString(2022, 5, 1)
    /\ Len(result.weeklyResults) = 2
    /\ result.weeklyResults[1].totalHours = H(24)
    /\ result.weeklyResults[2].totalHours = H(24)
    /\ result.totalHours = H(48)
    /\ result.totalSundayHours = H(48)
    /\ result.totalHolidayHours = H(24)

(***************************************************************************)
(* The weekly sum as the IEEE 754 doubles that JavaScript adds              *)
(*                                                                         *)
(* A double x with 1 <= x < 64 is a multiple of 2^-52.  It is written as   *)
(* [k, d], standing for k/100 + d/(100 * 2^52): the hundredths k that the  *)
(* other sections compute with, and the distance d of the double from      *)
(* k/100 in units of 2^-52/100.  In the binade 2^e <= x < 2^(e+1) the      *)
(* doubles are the multiples of 2^(e-52), so [k, d] is a double exactly    *)
(* when k * 2^52 + d is a multiple of 100 * 2^e.  Times on the half hour   *)
(* give hundredths that are doubles themselves (d = 0), and their sums are *)
(* exact.                                                                  *)
(***************************************************************************)
RECURSIVE Pow2(_)
Pow2(n) == IF n = 0 THEN 1 ELSE 2 * Pow2(n - 1)

\* 2^n modulo m
RECURSIVE Pow2Mod(_, _)
Pow2Mod(n, m) == IF n = 0 THEN 1 % m ELSE (2 * Pow2Mod(n - 1, m)) % m

\* the widest binade of the sums followed here: values below 2^(MaxBinade + 1)
MaxBinade == 5

\* x >= n, for a whole number n
AtLeast(x, n) == x.k > 100 * n \/ (x.k = 100 * n /\ x.d >= 0)

\* the e with 2^e <= x < 2^(e+1)
Binade(x) == CHOOSE e \in 0..MaxBinade : AtLeast(x, Pow2(e)) /\ ~AtLeast(x, Pow2(e + 1))

\* (k * 2^52 + d) modulo m
Residue(x, m) == (x.k * Pow2Mod(52, m) + x.d) % m

\* the double nearest to the exact value x, the even one of two equally near
RoundToNearestEven(x) ==
    IF x.k = 0 /\ x.d = 0 THEN x
    ELSE LET m == 100 * Pow2(Binade(x))
             r == Residue(x, m)
             down == [x EXCEPT !.d = @ - r]
             up == [x EXCEPT !.d = @ - r + m]
         IN  IF 2 * r < m THEN down
             ELSE IF 2 * r > m THEN up
             ELSE IF Residue(down, 2 * m) = 0 THEN down ELSE up

\* the double that k / 100 evaluates to, minutesToHours' final division
DoubleOf(k) == RoundToNearestEven([k |-> k, d |-> 0])

\* a + b
DoubleAdd(a, b) == RoundToNearestEven([k |-> a.k + b.k, d |-> a.d + b.d])

\* a > n, for n in hundredths
DoubleGreater(a, n) == a.k > n \/ (a.k = n /\ a.d > 0)

\* Math.round(a * 100) / 100, in hundredths
Hundredths(a) == a.k

\* getWeeklyWarnings on the double it is given
getWeeklyWarningsOfDouble(weeklyHours) ==
    IF DoubleGreater(weeklyHours, CONFIG.weeklyMaxHours)
    THEN << [type |-> "error",
             message |-> "Depassement duree maximale hebdomadaire (48h)"] >>
    ELSE IF DoubleGreater(weeklyHours, CONFIG.weeklyAvgMaxHours)
         THEN << [type |-> "warning",
                  message |-> "Attention : 44h max en moyenne sur 12 semaines"] >>
         ELSE <<>>

\* one iteration of: for (const entry of entries) { ... }, the weekly hours summed
\* as doubles
DayStepDouble ==
    /\ pc = "running"
    /\ Len(dailyResults) < Len(entries)
    /\ LET entry == entries[Len(dailyResults) + 1]
           date == NewDate(entry.date)
           hoursWorked == calculateDailyHours(entry)
           nightHours == calculateNightHours(entry)
           holiday == isPublicHoliday(date)
           sunday == isSunday(date)
           warnings == getDailyWarnings(entry, hoursWorked)
           weekKey == getISOWeek(date)
           hoursMap0 == IF MapHas(weeklyHoursMap, weekKey) THEN weeklyHoursMap
                        ELSE MapSet(weeklyHoursMap, weekKey, DoubleOf(0))
           sundayMap0 == MapInitZero(weeklySundayMap, weekKey)
           holidayMap0 == MapInitZero(weeklyHolidayMap, weekKey)
       IN  /\ weeklyHoursMap' =
                 MapSet(hoursMap0, weekKey,
                        DoubleAdd(MapGet(hoursMap0, weekKey), DoubleOf(hoursWorked)))
           /\ weeklySundayMap' =
                 IF sunday /\ Greater(hoursWorked, 0)
                 THEN MapSet(sundayMap0, weekKey, MapGet(sundayMap0, weekKey) + hoursWorked)
                 ELSE sundayMap0
           /\ totalSundayHours' =
                 IF sunday /\ Greater(hoursWorked, 0) THEN totalSundayHours + hoursWorked
                 ELSE totalSundayHours
           /\ weeklyHolidayMap' =
                 IF holiday # Null /\ Greater(hoursWorked, 0)
                 THEN MapSet(holidayMap0, weekKey, MapGet(holidayMap0, weekKey) + hoursWorked)
                 ELSE holidayMap0
           /\ totalHolidayHours' =
                 IF holiday # Null /\ Greater(hoursWorked, 0) THEN totalHolidayHours + hoursWorked
                 ELSE totalHolidayHours
           /\ totalHours' = Plus(totalHours, hoursWorked)
           /\ totalNightHours' = totalNightHours + nightHours
           /\ dailyResults' = Append(dailyResults,
                 [ date |-> entry.date,
                   dayName |-> dayNameOf(date),
                   hoursWorked |-> hoursWorked,
                   nightHours |-> nightHours,
                   isHoliday |-> holiday # Null,
                   holidayName |-> IF holiday # Null THEN holiday.name ELSE "",
                   isSunday |-> sunday,
                   warnings |-> warnings,
                   start |-> entry.start,
                   end |-> entry.end,
                   breakDuration |-> entry.breakDuration ])
    /\ UNCHANGED <<heap, restVars, call, pc, entries, hourlyRate, contractBase, weeklyResults,
                   cumulativeOvertime, totalPay, result>>

\* one iteration of: for (const [weekKey, hours] of Object.entries(weeklyHoursMap))
\* { ... }, hours being the double; the warnings compare the double, the overtime
\* and the pay are followed to the hundredth
WeekStepDouble ==
    /\ pc = "running"
    /\ Len(dailyResults) = Len(entries)
    /\ Len(weeklyResults) < Len(weeklyHoursMap)
    /\ LET weekKey == weeklyHoursMap[Len(weeklyResults) + 1][1]
           hours == weeklyHoursMap[Len(weeklyResults) + 1][2]
           sundayH == MapGetOrZero(weeklySundayMap, weekKey)
           holidayH == MapGetOrZero(weeklyHolidayMap, weekKey)
           overtime == calculateOvertime(Hundredths(hours), contractBase)
           warnings == getWeeklyWarningsOfDouble(hours)
           pay == calculatePay(Hundredths(hours), hourlyRate, contractBase, sundayH, holidayH)
       IN  /\ cumulativeOvertime' = Plus(cumulativeOvertime, overtime.totalOvertime)
           /\ weeklyResults' = Append(weeklyResults,
                 [ week |-> weekKey,
                   totalHours |-> Hundredths(hours),
                   overtime |-> overtime,
                   warnings |-> warnings,
                   pay |-> pay,
                   sundayHours |-> Round2(sundayH),
                   holidayHours |-> Round2(holidayH),
                   cumulativeOvertime |->
                      Round2(Plus(cumulativeOvertime, overtime.totalOvertime)) ])
           /\ heap' = AllocPay(AllocOvertime(heap, overtime), pay)
    /\ UNCHANGED <<restVars, call, pc, entries, hourlyRate, contractBase, dailyResults, totalHours,
                   totalNightHours, totalSundayHours, totalHolidayHours, weeklyHoursMap,
                   weeklySundayMap, weeklyHolidayMap, totalPay, result>>

(***************************************************************************)
(* processEntries on an entry list and on its permutations                 *)
(***************************************************************************)
\* a week of three days of 10 h 06, 20 h 22 and 17 h 32 (10.1 + 20.37 + 17.53 =
\* 48.00), and three days over two weeks, one of them Sunday 1 May
PermutedEntrySets ==
    { { Entry(DateString(2022, 4, 25), TimeString(0, 0), TimeString(10, 6), 0),
        Entry(DateString(2022, 4, 26), TimeString(0, 0), TimeString(20, 22), 0),
        Entry(DateString(2022, 4, 27), TimeString(0, 0), TimeString(17, 32), 0) },
      { Entry(DateString(2022, 4, 25), TimeString(9, 0), TimeString(17, 0), 30),
        Entry(DateString(2022, 5, 1), TimeString(10, 0), TimeString(16, 0), 0),
        Entry(DateString(2022, 5, 2), TimeString(8, 0), TimeString(12, 0), 0) } }

\* every order of the entries of a set
OrdersOf(S) ==
    {es \in [1..Cardinality(S) -> S] : \A e \in S : \E i \in 1..Cardinality(S) : es[i] = e}

PermutedArguments ==
    {[entries |-> es, hourlyRate |-> Num(15000), contractBase |-> b] :
        es \in UNION {OrdersOf(S) : S \in PermutedEntrySets}, b \in {35, 39}}

\* the caller invokes processEntries on one of the lists and keeps what the
\* invocation before it returned
InvokePermuted ==
    /\ pc \in {"idle", "done"}
    /\ Len(history) + (IF pc = "done" THEN 1 ELSE 0) < MaxInvocations
    /\ \E args \in PermutedArguments :
          LET a == Activation(args)
          IN  /\ entries' = a.entries
              /\ hourlyRate' = a.hourlyRate
              /\ contractBase' = a.contractBase
              /\ dailyResults' = a.dailyResults
              /\ totalHours' = a.totalHours
              /\ totalNightHours' = a.totalNightHours
              /\ totalSundayHours' = a.totalSundayHours
              /\ totalHolidayHours' = a.totalHolidayHours
              /\ weeklyHoursMap' = a.weeklyHoursMap
              /\ weeklySundayMap' = a.weeklySundayMap
              /\ weeklyHolidayMap' = a.weeklyHolidayMap
              /\ weeklyResults' = a.weeklyResults
              /\ cumulativeOvertime' = a.cumulativeOvertime
              /\ totalPay' = a.totalPay
    /\ result' = Null
    /\ pc' = "running"
    /\ history' = IF pc = "done"
                  THEN Append(history, [entries |-> entries, hourlyRate |-> hourlyRate,
                                        contractBase |-> contractBase, result |-> result])
                  ELSE history
    /\ UNCHANGED <<call, heap, serverVars, clientVars>>

NextPermute ==
    \/ InvokePermuted
    \/ DayStepDouble
    \/ WeekStepDouble
    \/ Return

SpecPermute == InitRepeat /\ [][NextPermute]_vars

\* b lists the elements of a in some order
IsPermutation(a, b) ==
    /\ Len(a) = Len(b)
    /\ \E p \in Permutations(1..Len(a)) : \A i \in 1..Len(a) : b[i] = a[p[i]]

\* the weekly result of week key w
WeekOf(res, w) ==
    res.weeklyResults[CHOOSE i \in 1..Len(res.weeklyResults) : res.weeklyResults[i].week = w]

WeekKeys(res) == {res.weeklyResults[i].week : i \in 1..Len(res.weeklyResults)}

SamePeriodTotals(r1, r2) ==
    /\ r1.totalHours = r2.totalHours
    /\ r1.totalNightHours = r2.totalNightHours
    /\ r1.totalSundayHours = r2.totalSundayHours
    /\ r1.totalHolidayHours = r2.totalHolidayHours
    /\ r1.totalOvertime = r2.totalOvertime
    /\ r1.totalPay = r2.totalPay

SameWeeks(r1, r2) ==
    /\ WeekKeys(r1) = WeekKeys(r2)
    /\ \A w \in WeekKeys(r1) :
          /\ WeekOf(r1, w).totalHours = WeekOf(r2, w).totalHours
          /\ WeekOf(r1, w).overtime = WeekOf(r2, w).overtime
          /\ WeekOf(r1, w).warnings = WeekOf(r2, w).warnings
          /\ WeekOf(r1, w).pay = WeekOf(r2, w).pay

\* C26: when processEntries has returned, its period totals and, week by week,
\* its totalHours, overtime breakdown, warnings and pay are those of every earlier
\* invocation on a permutation of the same entries with the same hourly rate and
\* contract base.
C26_PermutationInvariant ==
    Returned =>
        \A i \in 1..Len(history) :
            (/\ IsPermutation(history[i].entries, entries)
             /\ history[i].hourlyRate = hourlyRate
             /\ history[i].contractBase = contractBase)
            => /\ SamePeriodTotals(history[i].result, result)
               /\ SameWeeks(history[i].result, result)

(***************************************************************************)
(* The store under employee and entry requests (no password configured)    *)
(***************************************************************************)
SaveBodies ==
    { [isArray |-> TRUE, entries |-> <<Item(1, "09:00", "17:00", 30)>>],
      [isArray |-> TRUE, entries |-> <<Item(1, "10:00", "19:00", 60),
                                       Item(2, "09:00", "17:00", 30)>>],
      [isArray |-> TRUE, entries |-> <<Item(2, "10:00", "19:00", 60),
                                       Item(NoDate, "09:00", "17:00", 30)>>],
      [isArray |-> FALSE, entries |-> <<>>] }

StoreRequests ==
    {Req("b1", r[1], r[2], r[3], r[4]) : r \in
       { <<"GET", <<"api", "employees">>, NoQuery, NoBody>>,
         <<"POST", <<"api", "employees">>, NoQuery, [NoEmployeeFields EXCEPT !.name = "Ana"]>>,
         <<"POST", <<"api", "employees">>, NoQuery, [NoEmployeeFields EXCEPT !.name = "Bob"]>>,
         <<"GET", <<"api", "employees", "1", "entries">>, [start |-> 1, end |-> 2], NoBody>> }
       \cup {<<"PUT", <<"api", "employees", id>>, NoQuery,
               [NoEmployeeFields EXCEPT !.contract_base = 39]>> : id \in {"1", "3"}}
       \cup {<<"DELETE", <<"api", "employees", id>>, NoQuery, NoBody>> : id \in {"1", "2", "3"}}
       \cup {<<"PUT", <<"api", "employees", id, "entries">>, NoQuery, body>> :
               id \in {"1", "2", "3"}, body \in SaveBodies}}

InitStore ==
    /\ EngineIdle
    /\ PageLoaded
    /\ ServerIdle

NextStore ==
    \E req \in StoreRequests :
        \/ GetEmployees(req)
        \/ PostEmployees(req)
        \/ PutEmployee(req)
        \/ DeleteEmployee(req)
        \/ GetEntries(req)
        \/ PutEntries(req)

SpecStore == InitStore /\ [][NextStore]_vars

\* the rows of the entries table that employee id has for the date
RowsOf(rows, id, date) == {n \in rows : n.employee_id = id /\ n.date = date}

\* the step answers a save request: an entries array for employee number id
SaveStep ==
    /\ exchange'.handler = "PUT /api/employees/:id/entries"
    /\ exchange'.req.body.isArray

SavedId == IntegerOf(exchange'.req.path[3])

SavedItems == exchange'.req.body.entries

\* what a save step does to the rows
C27_Step ==
    SaveStep =>
        /\ exchange'.status = 200 =>
              /\ \A i \in 1..Len(SavedItems) :
                    RowsOf(dbEntries', SavedId, SavedItems[i].date) =
                       {[employee_id |-> SavedId, date |-> SavedItems[i].date,
                         start |-> SavedItems[i].start, end |-> SavedItems[i].end,
                         break_duration |-> SavedItems[i].breakDuration]}
              /\ \A n \in dbEntries \cup dbEntries' :
                    (n.employee_id # SavedId
                       \/ \A i \in 1..Len(SavedItems) : SavedItems[i].date # n.date)
                    => (n \in dbEntries <=> n \in dbEntries')
        /\ exchange'.status # 200 =>
              /\ exchange'.status \in {404, 500}
              /\ dbEntries' = dbEntries
        /\ (\E i \in 1..Len(SavedItems) : upsertFails(SavedItems[i])) => exchange'.status # 200

\* C27: the store never holds two entries of one employee for one date; a save
\* that answers 200 leaves for each date of the batch exactly one entry of the
\* employee, with the start, end and break of the batch, and leaves the entries of
\* the other dates and of the other employees as they were; a save with an entry
\* that fails answers with an error, and a save that answers with an error leaves
\* the store as it was.
C27_OneEntryPerEmployeeAndDate ==
    /\ [](\A a, b \in dbEntries : (a.employee_id = b.employee_id /\ a.date = b.date) => a = b)
    /\ [][C27_Step]_vars

\* the save of 09:00-17:00 for day 1 of employee 1 has just answered 200 where the
\* employee had 10:00-19:00 for that day (day 2 is only saved together with it):
\* day 1 is 09:00-17:00, day 2 and the entry of employee 2 are as they were
C27_Witness ==
    /\ exchange.handler = "PUT /api/employees/:id/entries"
    /\ exchange.status = 200
    /\ exchange.req.path[3] = "1"
    /\ exchange.req.body.entries = <<Item(1, "09:00", "17:00", 30)>>
    /\ dbEntries =
          { [employee_id |-> 1, date |-> 1, start |-> "09:00", end |-> "17:00",
             break_duration |-> 30],
            [employee_id |-> 1, date |-> 2, start |-> "09:00", end |-> "17:00",
             break_duration |-> 30],
            [employee_id |-> 2, date |-> 1, start |-> "10:00", end |-> "19:00",
             break_duration |-> 60],
            [employee_id |-> 2, date |-> 2, start |-> "09:00", end |-> "17:00",
             break_duration |-> 30] }

\* what the employee and save requests do to the rows and to the employees
C28_Step ==
    /\ (SaveStep /\ getEmployee(SavedId) = {}) =>
          /\ exchange'.status = 404
          /\ dbEntries' = dbEntries
    /\ exchange'.handler = "DELETE /api/employees/:id" =>
          LET id == IntegerOf(exchange'.req.path[3])
          IN  IF getEmployee(id) = {}
              THEN /\ exchange'.status = 404
                   /\ UNCHANGED databaseVars
              ELSE /\ exchange'.status = 200
                   /\ employees' = {e \in employees : e.id # id}
                   /\ dbEntries' = {n \in dbEntries : n.employee_id # id}
    /\ exchange'.handler = "PUT /api/employees/:id" =>
          LET id == IntegerOf(exchange'.req.path[3])
          IN  getEmployee(id) = {} =>
                 /\ exchange'.status = 404
                 /\ UNCHANGED databaseVars

\* C28: every entry of the store belongs to an employee of the store; a save for
\* an unknown employee id answers 404 and leaves the entries as they were;
\* deleting an employee removes that employee and exactly the entries of that
\* employee; deleting or updating an unknown employee answers 404 and leaves the
\* database as it was.
C28_EntriesBelongToEmployees ==
    /\ [](\A n \in dbEntries : \E e \in employees : e.id = n.employee_id)
    /\ [][C28_Step]_vars

\* employee 1 has just been deleted while employee 2 has entries: the store holds
\* the entries of employee 2 and nothing else
C28_Witness ==
    /\ exchange.handler = "DELETE /api/employees/:id"
    /\ exchange.status = 200
    /\ exchange.req.path[3] = "1"
    /\ lastEmployeeId = 2
    /\ {e.id : e \in employees} = {2}
    /\ Cardinality(dbEntries) = 2
    /\ \A n \in dbEntries : n.employee_id = 2

(***************************************************************************)
(* public/js/app.js: the page, its auto-save timer and its requests        *)
(***************************************************************************)
\* the requests of the page that are in flight together, at most
MaxFetches == 2

\* the days of state.dateRange
PeriodDays == <<1>>

BlankEntry(date) == [date |-> date, start |-> "", end |-> "", breakDuration |-> 0]

\* days.map(date => ({date, start: '', end: '', breakDuration: 0}))
BlankGrid == [i \in 1..Len(PeriodDays) |-> BlankEntry(PeriodDays[i])]

\* e.start || e.end || e.breakDuration
HasData(e) == e.start # "" \/ e.end # "" \/ e.breakDuration # 0

\* state.entries.filter(e => e.start || e.end || e.breakDuration)
toSave(grid) == SelectSeq(grid, HasData)

\* `${employeeId}` in the path of a request
TextOfId(id) == IF id = 0 THEN "null" ELSE IdText[id]

\* fetch(...): the request leaves the page; grid remembers the entries the page
\* had when it sent a save
Fetch(req) ==
    [req |-> req, stage |-> "sent", response |-> NoExchange,
     grid |-> IF req.method = "PUT" THEN state.entries ELSE <<>>]

CanFetch(req) ==
    /\ Cardinality(fetches) < MaxFetches
    /\ \A f \in fetches : f.req # req

\* API.getEntries(state.currentEmployeeId, start, end)
getEntriesRequest(id) ==
    Req("b1", "GET", <<"api", "employees", TextOfId(id), "entries">>,
        [start |-> PeriodDays[1], end |-> PeriodDays[Len(PeriodDays)]], NoBody)

\* API.saveEntries(state.currentEmployeeId, toSave)
saveEntriesRequest(id, grid) ==
    Req("b1", "PUT", <<"api", "employees", TextOfId(id), "entries">>, NoQuery,
        [isArray |-> TRUE,
         entries |-> [i \in 1..Len(toSave(grid)) |->
                         Item(toSave(grid)[i].date, toSave(grid)[i].start,
                              toSave(grid)[i].end, toSave(grid)[i].breakDuration)]])

\* the change handler of the employee selector with an employee chosen:
\* selectEmployee(id) up to the await of loadCurrentEntries
SelectEmployee ==
    \E id \in {e.id : e \in state.employees} :
        /\ CanFetch(getEntriesRequest(id))
        /\ state' = [state EXCEPT !.currentEmployeeId = id]
        /\ fetches' = fetches \cup {Fetch(getEntriesRequest(id))}
        /\ UNCHANGED <<autoSaveTimer, entriesOwner>>
        /\ UNCHANGED <<call, procVars, heap, history, serverVars>>

\* the day grid of loadCurrentEntries from the rows of the response
GridOf(rows) ==
    [i \in 1..Len(PeriodDays) |->
        IF \E j \in 1..Len(rows) : rows[j].date = PeriodDays[i]
        THEN LET db == rows[CHOOSE j \in 1..Len(rows) : rows[j].date = PeriodDays[i]]
             IN  [date |-> PeriodDays[i], start |-> db.start, end |-> db.end,
                  breakDuration |-> db.break_duration]
        ELSE BlankEntry(PeriodDays[i])]

\* loadCurrentEntries after its await: the response of a getEntries request
\* replaces state.entries
LoadResolved ==
    \E f \in fetches :
        /\ f.stage = "answered"
        /\ f.req.method = "GET"
        /\ state' = [state EXCEPT !.entries = GridOf(f.response.body)]
        /\ entriesOwner' = IntegerOf(f.req.path[3])
        /\ fetches' = fetches \ {f}
        /\ UNCHANGED autoSaveTimer
        /\ UNCHANGED <<call, procVars, heap, history, serverVars>>

\* scheduleAutoSave(): the timer is (re)started when an employee is selected
scheduleAutoSave == IF state.currentEmployeeId # 0 THEN TRUE ELSE autoSaveTimer

\* handleEntryChange: state.entries[index][field] = value; scheduleAutoSave()
HandleEntryChange ==
    \E index \in 1..Len(state.entries), value \in {"09:00"} :
        /\ state' = [state EXCEPT !.entries[index].start = value]
        /\ autoSaveTimer' = scheduleAutoSave
        /\ entriesOwner' = state.currentEmployeeId
        /\ UNCHANGED fetches
        /\ UNCHANGED <<call, procVars, heap, history, serverVars>>

\* handleQuickCheck: the template when the box is checked, an empty day when it
\* is un-checked; scheduleAutoSave()
HandleQuickCheck ==
    \E index \in 1..Len(state.entries), checked \in BOOLEAN :
        /\ state' = [state EXCEPT !.entries[index] =
                        IF checked
                        THEN [@ EXCEPT !.start = state.quickTemplate.start,
                                       !.end = state.quickTemplate.end,
                                       !.breakDuration = state.quickTemplate.breakDuration]
                        ELSE [@ EXCEPT !.start = "", !.end = "", !.breakDuration = 0]]
        /\ autoSaveTimer' = scheduleAutoSave
        /\ entriesOwner' = state.currentEmployeeId
        /\ UNCHANGED fetches
        /\ UNCHANGED <<call, procVars, heap, history, serverVars>>

\* clearAllEntries, confirmed: initEntries(); scheduleAutoSave()
ClearAllEntries ==
    /\ state' = [state EXCEPT !.entries = BlankGrid]
    /\ autoSaveTimer' = scheduleAutoSave
    /\ entriesOwner' = state.currentEmployeeId
    /\ UNCHANGED fetches
    /\ UNCHANGED <<call, procVars, heap, history, serverVars>>

\* the callback of the timer, 1500 ms after the last scheduleAutoSave, up to its
\* await: the entries with data go to the employee selected now
AutoSaveFires ==
    /\ autoSaveTimer
    /\ CanFetch(saveEntriesRequest(state.currentEmployeeId, state.entries))
    /\ autoSaveTimer' = FALSE
    /\ fetches' = fetches \cup {Fetch(saveEntriesRequest(state.currentEmployeeId, state.entries))}
    /\ UNCHANGED <<state, entriesOwner>>
    /\ UNCHANGED <<call, procVars, heap, history, serverVars>>

\* the callback after its await: the response of the save is dropped
SaveResolved ==
    \E f \in fetches :
        /\ f.stage = "answered"
        /\ f.req.method = "PUT"
        /\ fetches' = fetches \ {f}
        /\ UNCHANGED <<state, autoSaveTimer, entriesOwner>>
        /\ UNCHANGED <<call, procVars, heap, history, serverVars>>

\* the server answers a request that is in flight
ServerAnswers ==
    \E req \in {f.req : f \in {g \in fetches : g.stage = "sent"}} :
        \/ GetEntries(req)
        \/ PutEntries(req)

\* the page after init(): the employees Ana and Bob listed, none selected, an empty
\* grid for the period; the store has no entry yet
InitClient ==
    /\ EngineIdle
    /\ authPassword = ""
    /\ sessions = {}
    /\ employees = {[id |-> 1, name |-> "Ana", gross_monthly_salary |-> 0, contract_base |-> 35],
                    [id |-> 2, name |-> "Bob", gross_monthly_salary |-> 0, contract_base |-> 35]}
    /\ lastEmployeeId = 2
    /\ dbEntries = {}
    /\ settings = {}
    /\ exchange = NoExchange
    /\ state = [employees |-> employees, currentEmployeeId |-> 0, entries |-> BlankGrid,
                quickTemplate |-> [start |-> "10:00", end |-> "19:00", breakDuration |-> 60]]
    /\ autoSaveTimer = FALSE
    /\ fetches = {}
    /\ entriesOwner = 0

NextClient ==
    \/ SelectEmployee
    \/ LoadResolved
    \/ HandleEntryChange
    \/ HandleQuickCheck
    \/ ClearAllEntries
    \/ AutoSaveFires
    \/ SaveResolved
    \/ ServerAnswers

SpecClient == InitClient /\ [][NextClient]_vars

\* the save requests that leave the page in this step
SavesSent == {f \in fetches' \ fetches : f.req.method = "PUT"}

\* C29: every save request that leaves the page with entries names the employee
\* for whom the entries of the page were loaded or last edited (entriesOwner: the
\* employee of the load that filled state.entries, or the employee selected at the
\* last edit of them).
C29_SavePairsOwnEntries ==
    [][\A f \in SavesSent :
          f.req.body.entries # <<>> => f.req.path[3] = TextOfId(entriesOwner)]_vars

\* the day is shown empty by a load from these rows
ShownEmpty(rows, id, date) ==
    \A n \in rows : (n.employee_id = id /\ n.date = date) =>
        (n.start = "" /\ n.end = "" /\ n.break_duration = 0)

\* C30: when a save of the page is answered with 200, the store agrees with the
\* entries the page had when it sent the save: a day with data has that data, and
\* a day that was empty (cleared, un-checked or never filled) has nothing that a
\* reload of the employee and period would show.
C30_SaveReflectsLocalEntries ==
    [][\A f \in fetches :
          (/\ f.stage = "sent"
           /\ f.req.method = "PUT"
           /\ exchange' # NoExchange
           /\ exchange'.req = f.req
           /\ exchange'.status = 200
           /\ [f EXCEPT !.stage = "answered", !.response = exchange'] \in fetches')
          => \A i \in 1..Len(f.grid) :
                LET id == IntegerOf(f.req.path[3])
                    e == f.grid[i]
                IN  IF HasData(e)
                    THEN RowsOf(dbEntries', id, e.date) =
                            {[employee_id |-> id, date |-> e.date, start |-> e.start,
                              end |-> e.end, break_duration |-> e.breakDuration]}
                    ELSE ShownEmpty(dbEntries', id, e.date)]_vars

====
